---- MODULE Spec2Model ----
(***************************************************************************)
(* Probabilistic structures of the python_comparison references:           *)
(*   bloom_filter.py      BloomFilter, CountingBloomFilter                 *)
(*   count_min_sketch.py  CountMinSketch                                   *)
(*   hyperloglog.py       HyperLogLog                                      *)
(* Each structure has its own specification (SpecBF, SpecCBF, SpecCBFAdd,  *)
(* SpecCMS, SpecHLL); the variables of the other structures stay idle.     *)
(* SpecMerge runs either kind of mergeable sketch, and SpecNew starts with *)
(* no object at all and makes one constructor or factory call.             *)
(* Hash digests (MD5, SHA-1, SHA-256) are deterministic functions of the   *)
(* key: they are chosen once, arbitrarily, in the initial state, so every  *)
(* result holds for every digest assignment within the bounds.             *)
(***************************************************************************)
EXTENDS Integers, Sequences, FiniteSets, TLC

VARIABLES
    md5,          \* md5[item]: int(hashlib.md5(data).hexdigest(), 16)
    sha1,         \* sha1[item]: int(hashlib.sha1(data).hexdigest(), 16)
    bf,           \* the BloomFilter object
    bfAdded,      \* history: keys passed to BloomFilter.add
    bfRet,        \* the last BloomFilter call and what it returned
    cbf,          \* the CountingBloomFilter object
    cbfNet,       \* history: per key, successful adds minus successful removes
    cbfAddCalled, \* history: keys passed to CountingBloomFilter.add
    cbfContract,  \* history: every remove(y) so far was called with cbfNet[y] > 0
    cbfRet,       \* the last CountingBloomFilter call and what it returned
    cbfRT,        \* history: progress of an add(x); remove(x) round trip
    cbfOps,       \* history: number of add/remove calls made
    sha256,       \* sha256[<<item, row>>]: first 8 digest bytes of "row:item"
    cms,          \* the CountMinSketch objects bound to the names A, B and R
    cmsTrue,      \* history: per name and key, the sum of the counts passed in
    cmsRet,       \* what the last CountMinSketch call returned or raised
    upd,          \* per thread, the update call it runs: arguments and position
    updSerial,    \* history: no step of one call fell between steps of the other
    hllHash,      \* hllHash[item]: the set bits of the 64-bit SHA-256 prefix
    hll,          \* the HyperLogLog objects bound to the names A, B and R
    hllRet,       \* what the last HyperLogLog call returned or raised
    hllRetInt,    \* the integer it returned when hllRet = "int", else 0
    hllSeen,      \* history: per name, the keys of the stream(s) it was built from
    newRet        \* the last constructor or factory call and what it returned or raised

hashVars == <<md5, sha1>>
bfVars == <<bf, bfAdded, bfRet>>
cbfVars == <<cbf, cbfNet, cbfAddCalled, cbfContract, cbfRet, cbfRT, cbfOps>>
cmsVars == <<sha256, cms, cmsTrue, cmsRet, upd, updSerial>>
hllVars == <<hllHash, hll, hllRet, hllRetInt, hllSeen>>
vars == <<md5, sha1, bf, bfAdded, bfRet,
          cbf, cbfNet, cbfAddCalled, cbfContract, cbfRet, cbfRT, cbfOps,
          sha256, cms, cmsTrue, cmsRet, upd, updSerial,
          hllHash, hll, hllRet, hllRetInt, hllSeen, newRet>>

(* ------------------------------ bounds --------------------------------- *)

\* Keys handed to the filters.
Items == {"a", "b"}

\* Largest MD5 / SHA-1 digest value drawn for a BloomFilter key.
MaxDigestBF == 5

\* BloomFilter.num_items is unbounded in the code; add is cut off here.
MaxBFItems == 3

\* (num_bits, num_hashes) pairs a BloomFilter is constructed with.
BFShapes == {<<9, 2>>, <<3, 3>>}

\* Largest MD5 / SHA-1 digest value drawn for a CountingBloomFilter key.
MaxDigestCBF == 2

\* Number of CountingBloomFilter add/remove calls explored.
MaxCBFOps == 5

\* (num_counters, num_hashes, counter_bits) triples a CountingBloomFilter is
\* constructed with.
CBFShapes == {<<3, 2, 1>>, <<3, 2, 2>>}

\* The SHA-256 prefix values drawn for a (key, row) pair: every residue
\* modulo the widths of CMSShapes.
CMSDigests == {0, 1}

\* The length of the stream fed to the workers A and B: the counts passed to
\* update add up to this at most, and a merge result holds no more.
MaxCMSTotal == 2

\* The (width, depth) pairs the workers A and B are constructed with: equal
\* shapes, a different depth, a different width.
CMSShapes == {<< <<2, 2>>, <<2, 2>> >>, << <<2, 2>>, <<2, 1>> >>,
              << <<2, 1>>, <<1, 1>> >>}

\* The deepest of the shapes: rows for which digests are drawn.
CMSRows == 0 .. 1

\* The counts passed to update.
CMSCounts == {0, 1, 2}

\* The names sketches are bound to: two workers and a merge result.
CMSNames == {"A", "B", "R"}
CMSWorkers == {"A", "B"}

\* The 64-bit hash values drawn for HyperLogLog keys, each as the set of its
\* set bit positions (bit 0 is the least significant): zero, the top bit
\* alone, the bit that is an index bit at precision 5 and a rank bit at
\* precision 4, the lowest bit alone, and two mixed patterns.
HLLHashes == {{}, {63}, {59}, {0}, {63, 58, 3}, {60, 59, 57}}

\* The precisions the workers A and B are constructed with.
HLLPrecisions == {<<4, 4>>, <<4, 5>>}

\* The threads that call update on one sketch, and the counts they pass.
Threads == {1, 2}
ThreadCounts == {1, 2}

\* The names HyperLogLogs are bound to: two workers and a merge result.
HLLNames == {"A", "B", "R"}
HLLWorkers == {"A", "B"}

\* The keys of the stream count() is called on, in the order they arrive.
CountStream ==
    <<"k0", "k1", "k2", "k3", "k4", "k5", "k6", "k7",
      "k8", "k9", "k10", "k11", "k12", "k13", "k14", "k15">>

\* The bits below the index bits that the hashes of that stream have set, the
\* same for all its keys: bit 59 (rank 1 at precision 4), bit 35 (rank 25),
\* bit 33 (rank 27), bit 31 (rank 29) and none (rank 61).
CountRankBits == {{59}, {35}, {33}, {31}, {}}

\* The (num_bits, num_hashes) pairs BloomFilter is called with: a num_bits
\* whose byte count is negative, a negative one, zero and a positive one.
BFNewArgs == {-8, -1, 0, 3} \X {-1, 0, 1, 2}

\* The (num_counters, num_hashes, counter_bits) triples CountingBloomFilter is
\* called with.
CBFNewArgs == {-1, 0, 3} \X {-1, 0, 1, 2} \X {-1, 1}

\* The (width, depth) pairs CountMinSketch is called with.
CMSNewArgs == {-1, 0, 2} \X {-1, 0, 1, 2}

\* The precisions HyperLogLog is called with: both ends of [4, 18] and the
\* values next to them.
HLLNewArgs == {3, 4, 5, 18, 19}

\* The expected_items the factory create_optimal is called with.
ExpectedItems == {-1, 0, 1, 2}

\* The false_positive_rate, epsilon and delta the factories are called with,
\* each as <<numerator, denominator>>: -1/2, 0, 1/5, 1/2, 9/10, 1 and 3/2.
Fractions ==
    {<<-1, 2>>, <<0, 1>>, <<1, 5>>, <<1, 2>>, <<9, 10>>, <<1, 1>>, <<3, 2>>}

(* --------------------------- bit arithmetic ---------------------------- *)

\* x | y on non-negative integers.
RECURSIVE BitOr(_, _)
BitOr(x, y) ==
    IF x = 0 THEN y
    ELSE IF y = 0 THEN x
    ELSE (IF (x % 2) + (y % 2) > 0 THEN 1 ELSE 0) + 2 * BitOr(x \div 2, y \div 2)

\* x & y on non-negative integers.
RECURSIVE BitAnd(_, _)
BitAnd(x, y) ==
    IF x = 0 \/ y = 0 THEN 0
    ELSE (IF (x % 2) + (y % 2) = 2 THEN 1 ELSE 0) + 2 * BitAnd(x \div 2, y \div 2)

\* No call has been made yet.
NoRet == [op |-> "none", item |-> "none", value |-> "None"]

\* No constructor or factory has been called yet.
NoNew == [cls |-> "none", args |-> <<>>, value |-> "None"]

\* a % m as Python computes it for m # 0: the result has the sign of m.
PyMod(a, m) == IF m > 0 THEN a % m ELSE -((-a) % (-m))

\* Whether seq[i] raises IndexError on a sequence of length len: Python
\* accepts the indices -len .. len - 1.
PyIndexError(i, len) == i < -len \/ i >= len

\* A name that is not bound to an object.
None == [none |-> TRUE]

(* ----------------------------- BloomFilter ----------------------------- *)

\* BloomFilter.__init__: the object after construction.
BFNew(num_bits, num_hashes) ==
    [num_bits   |-> num_bits,
     num_hashes |-> num_hashes,
     num_items  |-> 0,
     bits       |-> [j \in 0 .. ((num_bits + 7) \div 8) - 1 |-> 0]]

\* BloomFilter._hash: Kirsch-Mitzenmacher index of item for a seed.
BFHash(f, item, seed) == PyMod(md5[item] + seed * sha1[item], f.num_bits)

\* The bug of assigning the mask instead of or-ing it into the byte.
BFSetBitAssign(bits, index) ==
    [bits EXCEPT ![index \div 8] = 2 ^ (index % 8)]

\* The bug of flipping the bit (^=) instead of setting it.
BFSetBitToggle(bits, index) ==
    [bits EXCEPT ![index \div 8] =
        IF BitAnd(@, 2 ^ (index % 8)) # 0
        THEN @ - 2 ^ (index % 8)
        ELSE @ + 2 ^ (index % 8)]

\* BloomFilter._set_bit: bits[byte_index] |= (1 << bit_index).
BFSetBit(bits, index) ==
    [bits EXCEPT ![index \div 8] = BitOr(@, 2 ^ (index % 8))]

\* BloomFilter._get_bit: bool(bits[byte_index] & (1 << bit_index)).
BFGetBit(bits, index) ==
    BitAnd(bits[index \div 8], 2 ^ (index % 8)) # 0

\* The bug of a loop that leaves out one seed (range(i + 1, num_hashes)).
RECURSIVE BFAddBitsSkipOne(_, _, _, _)
BFAddBitsSkipOne(f, bits, item, i) ==
    IF i + 1 >= f.num_hashes THEN bits
    ELSE BFAddBitsSkipOne(f, BFSetBit(bits, BFHash(f, item, i + 1)), item, i + 1)

\* The loop of BloomFilter.add from seed i on.
RECURSIVE BFAddBits(_, _, _, _)
BFAddBits(f, bits, item, i) ==
    IF i >= f.num_hashes THEN bits
    ELSE BFAddBits(f, BFSetBit(bits, BFHash(f, item, i)), item, i + 1)

\* The loop of BloomFilter.query from seed i on (returns at the first unset bit).
RECURSIVE BFQueryFrom(_, _, _)
BFQueryFrom(f, item, i) ==
    IF i >= f.num_hashes THEN TRUE
    ELSE IF ~BFGetBit(f.bits, BFHash(f, item, i)) THEN FALSE
    ELSE BFQueryFrom(f, item, i + 1)

\* BloomFilter.query(item).
BFQuery(f, item) == BFQueryFrom(f, item, 0)

\* The set of bit positions set in the filter (a view of the byte array).
BFBitsSet(f) == {j \in 0 .. f.num_bits - 1 : BFGetBit(f.bits, j)}

\* BloomFilter.__init__(num_bits, num_hashes): the exception raised (the one
\* of bytearray for a negative length; nothing else is checked) or "None",
\* and the object constructed.
BFInit(num_bits, num_hashes) ==
    IF (num_bits + 7) \div 8 < 0
    THEN [raised |-> "ValueError", obj |-> None]
    ELSE [raised |-> "None", obj |-> BFNew(num_bits, num_hashes)]

\* The exception the loop of add or of query raises on item, or "None":
\* _hash divides by num_bits, and _set_bit / _get_bit index the byte array.
\* An index outside the array exists only when the array is empty, so the
\* first iteration decides.
BFRaised(f, item) ==
    IF f.num_hashes < 1 THEN "None"
    ELSE IF f.num_bits = 0 THEN "ZeroDivisionError"
    ELSE IF PyIndexError(BFHash(f, item, 0) \div 8, Cardinality(DOMAIN f.bits))
         THEN "IndexError"
    ELSE "None"

\* A call of BloomFilter.add(item).
BFAdd(item) ==
    /\ bf # None
    /\ bf.num_items < MaxBFItems
    /\ IF BFRaised(bf, item) # "None"
       THEN /\ bf' = bf
            /\ bfRet' = [op |-> "add", item |-> item, value |-> BFRaised(bf, item)]
       ELSE /\ bf' = [bf EXCEPT !.bits = BFAddBits(bf, bf.bits, item, 0),
                                !.num_items = @ + 1]
            /\ bfRet' = [op |-> "add", item |-> item, value |-> "None"]
    /\ bfAdded' = bfAdded \cup {item}
    /\ UNCHANGED <<newRet, hashVars, cbfVars, cmsVars, hllVars>>

\* A call of BloomFilter.query(item); the filter is only read.
BFQueryCall(item) ==
    /\ bf # None
    /\ bfRet' = [op |-> "query", item |-> item,
                 value |-> IF BFRaised(bf, item) # "None"
                           THEN BFRaised(bf, item)
                           ELSE BFQuery(bf, item)]
    /\ UNCHANGED <<newRet, bf, bfAdded, hashVars, cbfVars, cmsVars, hllVars>>

\* A statement bf = BloomFilter(num_bits, num_hashes), the first constructor
\* call of a run; when it raises, no object exists.
BFCreate(num_bits, num_hashes) ==
    /\ newRet = NoNew
    /\ LET r == BFInit(num_bits, num_hashes) IN
       /\ bf' = IF r.raised # "None" THEN bf ELSE r.obj
       /\ newRet' = [cls |-> "BloomFilter", args |-> <<num_bits, num_hashes>>,
                     value |-> IF r.raised # "None" THEN r.raised
                               ELSE "BloomFilter"]
    /\ UNCHANGED <<bfAdded, bfRet, hashVars, cbfVars, cmsVars, hllVars>>

(* ------------------------- CountingBloomFilter ------------------------- *)

\* CountingBloomFilter.__init__: the object after construction.
CBFNew(num_counters, num_hashes, counter_bits) ==
    [num_counters |-> num_counters,
     num_hashes   |-> num_hashes,
     counter_bits |-> counter_bits,
     max_count    |-> (2 ^ counter_bits) - 1,
     num_items    |-> 0,
     counters     |-> [j \in 0 .. num_counters - 1 |-> 0]]

\* CountingBloomFilter._hash.
CBFHash(f, item, seed) == PyMod(md5[item] + seed * sha1[item], f.num_counters)

\* indices = [self._hash(item, i) for i in range(self.num_hashes)]
CBFIndices(f, item) == [n \in 1 .. f.num_hashes |-> CBFHash(f, item, n - 1)]

\* The overflow check of add: some target counter is already at max_count.
CBFWouldOverflow(f, indices) ==
    \E n \in 1 .. Len(indices) : f.counters[indices[n]] >= f.max_count

\* The bug of incrementing only the first target counter.
RECURSIVE CBFIncrFirstOnly(_, _, _)
CBFIncrFirstOnly(counters, indices, n) ==
    IF n > 1 \/ n > Len(indices) THEN counters
    ELSE [counters EXCEPT ![indices[n]] = @ + 1]

\* The increment loop of add from the n-th index on.
RECURSIVE CBFIncr(_, _, _)
CBFIncr(counters, indices, n) ==
    IF n > Len(indices) THEN counters
    ELSE CBFIncr([counters EXCEPT ![indices[n]] = @ + 1], indices, n + 1)

\* CountingBloomFilter.query(item).
CBFQuery(f, item) ==
    \A i \in 0 .. f.num_hashes - 1 : f.counters[CBFHash(f, item, i)] # 0

\* CountingBloomFilter.add(item): the value returned and the object afterwards.
CBFAddResult(f, item) ==
    LET indices == CBFIndices(f, item) IN
    IF CBFWouldOverflow(f, indices)
    THEN [ok |-> FALSE, f |-> f]
    ELSE [ok |-> TRUE,
          f  |-> [f EXCEPT !.counters = CBFIncr(f.counters, indices, 1),
                           !.num_items = @ + 1]]

\* The bug of clearing a target counter, as if it were a bit, instead of
\* decrementing it.
RECURSIVE CBFDecrClear(_, _, _, _)
CBFDecrClear(f, counters, item, i) ==
    IF i >= f.num_hashes THEN counters
    ELSE CBFDecrClear(f, [counters EXCEPT ![CBFHash(f, item, i)] = 0], item, i + 1)

\* The decrement loop of remove from seed i on.
RECURSIVE CBFDecr(_, _, _, _)
CBFDecr(f, counters, item, i) ==
    IF i >= f.num_hashes THEN counters
    ELSE LET idx == CBFHash(f, item, i) IN
         CBFDecr(f,
                 IF counters[idx] > 0
                 THEN [counters EXCEPT ![idx] = @ - 1]
                 ELSE counters,
                 item, i + 1)

\* The bug of leaving out the membership test of remove.
CBFRemoveResultNoTest(f, item) ==
    [ok |-> TRUE,
     f  |-> [f EXCEPT !.counters = CBFDecr(f, f.counters, item, 0),
                      !.num_items = @ - 1]]

\* The bug of leaving num_items as it is on a successful remove.
CBFRemoveResultKeepCount(f, item) ==
    IF ~CBFQuery(f, item)
    THEN [ok |-> FALSE, f |-> f]
    ELSE [ok |-> TRUE,
          f  |-> [f EXCEPT !.counters = CBFDecr(f, f.counters, item, 0)]]

\* CountingBloomFilter.remove(item): the value returned and the object afterwards.
CBFRemoveResult(f, item) ==
    IF ~CBFQuery(f, item)
    THEN [ok |-> FALSE, f |-> f]
    ELSE [ok |-> TRUE,
          f  |-> [f EXCEPT !.counters = CBFDecr(f, f.counters, item, 0),
                           !.num_items = @ - 1]]

\* No round trip is in progress.
NoRT == [stage |-> "none", item |-> "none", preQuery |-> FALSE]

\* CountingBloomFilter.__init__(num_counters, num_hashes, counter_bits): the
\* exception raised (the one of 1 << counter_bits for a negative shift;
\* nothing else is checked) or "None", and the object constructed.
CBFInit(num_counters, num_hashes, counter_bits) ==
    IF counter_bits < 0
    THEN [raised |-> "ValueError", obj |-> None]
    ELSE [raised |-> "None", obj |-> CBFNew(num_counters, num_hashes, counter_bits)]

\* The exception add, remove or query raises on item, or "None": _hash
\* divides by num_counters, and each of the three reads counters[index] for
\* the item's first index before it writes anything. An index outside the
\* list exists only when the list is empty, so the first index decides.
CBFRaised(f, item) ==
    IF f.num_hashes < 1 THEN "None"
    ELSE IF f.num_counters = 0 THEN "ZeroDivisionError"
    ELSE IF PyIndexError(CBFHash(f, item, 0), Cardinality(DOMAIN f.counters))
         THEN "IndexError"
    ELSE "None"

\* A call of CountingBloomFilter.add(item).
CBFAdd(item) ==
    /\ cbf # None
    /\ cbfOps < MaxCBFOps
    /\ IF CBFRaised(cbf, item) # "None"
       THEN /\ cbf' = cbf
            /\ cbfRet' = [op |-> "add", item |-> item,
                          value |-> CBFRaised(cbf, item)]
            /\ cbfNet' = cbfNet
            /\ cbfRT' = NoRT
       ELSE LET r == CBFAddResult(cbf, item) IN
            /\ cbf' = r.f
            /\ cbfRet' = [op |-> "add", item |-> item, value |-> r.ok]
            /\ cbfNet' = IF r.ok THEN [cbfNet EXCEPT ![item] = @ + 1] ELSE cbfNet
            /\ cbfRT' = IF r.ok
                        THEN [stage |-> "added", item |-> item,
                              preQuery |-> CBFQuery(cbf, item)]
                        ELSE NoRT
    /\ cbfAddCalled' = cbfAddCalled \cup {item}
    /\ cbfOps' = cbfOps + 1
    /\ UNCHANGED <<newRet, cbfContract, hashVars, bfVars, cmsVars, hllVars>>

\* A call of CountingBloomFilter.remove(item).
CBFRemove(item) ==
    /\ cbf # None
    /\ cbfOps < MaxCBFOps
    /\ IF CBFRaised(cbf, item) # "None"
       THEN /\ cbf' = cbf
            /\ cbfRet' = [op |-> "remove", item |-> item,
                          value |-> CBFRaised(cbf, item)]
            /\ cbfNet' = cbfNet
            /\ cbfRT' = NoRT
       ELSE LET r == CBFRemoveResult(cbf, item) IN
            /\ cbf' = r.f
            /\ cbfRet' = [op |-> "remove", item |-> item, value |-> r.ok]
            /\ cbfNet' = IF r.ok THEN [cbfNet EXCEPT ![item] = @ - 1] ELSE cbfNet
            /\ cbfRT' = IF r.ok /\ cbfRT.stage = "added" /\ cbfRT.item = item
                        THEN [cbfRT EXCEPT !.stage = "removed"]
                        ELSE NoRT
    /\ cbfContract' = (cbfContract /\ cbfNet[item] > 0)
    /\ cbfOps' = cbfOps + 1
    /\ UNCHANGED <<newRet, cbfAddCalled, hashVars, bfVars, cmsVars, hllVars>>

\* A call of CountingBloomFilter.query(item); the filter is only read.
CBFQueryCall(item) ==
    /\ cbf # None
    /\ cbfRet' = [op |-> "query", item |-> item,
                  value |-> IF CBFRaised(cbf, item) # "None"
                            THEN CBFRaised(cbf, item)
                            ELSE CBFQuery(cbf, item)]
    /\ UNCHANGED <<newRet, cbf, cbfNet, cbfAddCalled, cbfContract, cbfRT, cbfOps,
                   hashVars, bfVars, cmsVars, hllVars>>

\* A statement cbf = CountingBloomFilter(num_counters, num_hashes,
\* counter_bits), the first constructor call of a run; when it raises, no
\* object exists.
CBFCreate(num_counters, num_hashes, counter_bits) ==
    /\ newRet = NoNew
    /\ LET r == CBFInit(num_counters, num_hashes, counter_bits) IN
       /\ cbf' = IF r.raised # "None" THEN cbf ELSE r.obj
       /\ newRet' = [cls |-> "CountingBloomFilter",
                     args |-> <<num_counters, num_hashes, counter_bits>>,
                     value |-> IF r.raised # "None" THEN r.raised
                               ELSE "CountingBloomFilter"]
    /\ UNCHANGED <<cbfNet, cbfAddCalled, cbfContract, cbfRet, cbfRT, cbfOps,
                   hashVars, bfVars, cmsVars, hllVars>>

(* ---------------------------- CountMinSketch --------------------------- *)

\* CountMinSketch.__init__: the object after construction.
CMSNew(width, depth) ==
    [width       |-> width,
     depth       |-> depth,
     table       |-> [r \in 0 .. depth - 1 |-> [c \in 0 .. width - 1 |-> 0]],
     total_count |-> 0]

\* CountMinSketch._hash: the column of item in a row.
CMSHash(sk, item, row) == PyMod(sha256[<<item, row>>], sk.width)

\* The bug of updating the first row only.
RECURSIVE CMSUpdateFirstRow(_, _, _, _, _)
CMSUpdateFirstRow(sk, table, item, count, row) ==
    IF row >= sk.depth \/ row >= 1 THEN table
    ELSE [table EXCEPT ![row][CMSHash(sk, item, row)] = @ + count]

\* The bug of storing count in the cell (=) instead of adding it (+=).
RECURSIVE CMSUpdateRowsAssign(_, _, _, _, _)
CMSUpdateRowsAssign(sk, table, item, count, row) ==
    IF row >= sk.depth THEN table
    ELSE CMSUpdateRowsAssign(sk,
                             [table EXCEPT ![row][CMSHash(sk, item, row)] = count],
                             item, count, row + 1)

\* The row loop of update from a row on.
RECURSIVE CMSUpdateRows(_, _, _, _, _)
CMSUpdateRows(sk, table, item, count, row) ==
    IF row >= sk.depth THEN table
    ELSE CMSUpdateRows(sk,
                       [table EXCEPT ![row][CMSHash(sk, item, row)] = @ + count],
                       item, count, row + 1)

\* The bug of leaving total_count as it is.
CMSUpdatedNoTotal(sk, item, count) ==
    [sk EXCEPT !.table = CMSUpdateRows(sk, sk.table, item, count, 0)]

\* CountMinSketch.update(item, count): the object afterwards.
CMSUpdated(sk, item, count) ==
    [sk EXCEPT !.table = CMSUpdateRows(sk, sk.table, item, count, 0),
               !.total_count = @ + count]

\* min(min_count, v), where min_count is {} for float('inf') and {n} for n.
CMSMin(min_count, v) ==
    IF min_count = {} THEN {v}
    ELSE {IF v < (CHOOSE n \in min_count : TRUE)
          THEN v
          ELSE CHOOSE n \in min_count : TRUE}

\* The row loop of query from a row on.
RECURSIVE CMSQueryRows(_, _, _, _)
CMSQueryRows(sk, item, row, min_count) ==
    IF row >= sk.depth THEN min_count
    ELSE CMSQueryRows(sk, item, row + 1,
                      CMSMin(min_count, sk.table[row][CMSHash(sk, item, row)]))

\* CountMinSketch.query(item): int(min_count); int(float('inf')) raises.
CMSQuery(sk, item) ==
    LET m == CMSQueryRows(sk, item, 0, {}) IN
    IF m = {} THEN "OverflowError" ELSE CHOOSE n \in m : TRUE

\* The bug of adding the other table into self and returning self.
CMSMergeResultInPlace(a, b) ==
    IF a.width # b.width \/ a.depth # b.depth
    THEN [ok |-> FALSE, merged |-> None, self |-> a]
    ELSE LET m == [a EXCEPT
                     !.table = [r \in 0 .. a.depth - 1 |->
                                   [c \in 0 .. a.width - 1 |->
                                       a.table[r][c] + b.table[r][c]]],
                     !.total_count = a.total_count + b.total_count]
         IN [ok |-> TRUE, merged |-> m, self |-> m]

\* The bug of keeping the larger cell, as HyperLogLog.merge does, instead of
\* the sum.
CMSMergeResultMax(a, b) ==
    IF a.width # b.width \/ a.depth # b.depth
    THEN [ok |-> FALSE, merged |-> None, self |-> a]
    ELSE [ok     |-> TRUE,
          merged |-> [CMSNew(a.width, a.depth) EXCEPT
                        !.table = [r \in 0 .. a.depth - 1 |->
                                      [c \in 0 .. a.width - 1 |->
                                          IF a.table[r][c] >= b.table[r][c]
                                          THEN a.table[r][c]
                                          ELSE b.table[r][c]]],
                        !.total_count = a.total_count + b.total_count],
          self   |-> a]

\* The bug of giving the merged sketch the total_count of self alone.
CMSMergeResultSelfTotal(a, b) ==
    IF a.width # b.width \/ a.depth # b.depth
    THEN [ok |-> FALSE, merged |-> None, self |-> a]
    ELSE [ok     |-> TRUE,
          merged |-> [CMSNew(a.width, a.depth) EXCEPT
                        !.table = [r \in 0 .. a.depth - 1 |->
                                      [c \in 0 .. a.width - 1 |->
                                          a.table[r][c] + b.table[r][c]]],
                        !.total_count = a.total_count],
          self   |-> a]

\* CountMinSketch.merge(other) on self = a, other = b: whether it returned
\* (ok) or raised ValueError, the object returned, and self afterwards.
CMSMergeResult(a, b) ==
    IF a.width # b.width \/ a.depth # b.depth
    THEN [ok |-> FALSE, merged |-> None, self |-> a]
    ELSE [ok     |-> TRUE,
          merged |-> [CMSNew(a.width, a.depth) EXCEPT
                        !.table = [r \in 0 .. a.depth - 1 |->
                                      [c \in 0 .. a.width - 1 |->
                                          a.table[r][c] + b.table[r][c]]],
                        !.total_count = a.total_count + b.total_count],
          self   |-> a]

\* CountMinSketch.__init__(width, depth): nothing is checked and nothing
\* raises; a non-positive width or depth gives empty rows or an empty table.
CMSInit(width, depth) == [raised |-> "None", obj |-> CMSNew(width, depth)]

\* The exception the row loop of update or of query raises on item, or
\* "None": _hash divides by width, and table[row][col] indexes the row. An
\* index outside a row exists only when the rows are empty, so the first row
\* decides, before anything is written.
CMSRaised(sk, item) ==
    IF sk.depth < 1 THEN "None"
    ELSE IF sk.width = 0 THEN "ZeroDivisionError"
    ELSE IF PyIndexError(CMSHash(sk, item, 0), Cardinality(DOMAIN sk.table[0]))
         THEN "IndexError"
    ELSE "None"

\* The exception query raises on item, or "None": the one of the row loop,
\* or, when there is no row, the one of int(float('inf')).
CMSQueryRaised(sk, item) ==
    IF sk.depth < 1 THEN "OverflowError" ELSE CMSRaised(sk, item)

\* total_count of the sketch bound to a name, 0 when there is none.
CMSTotalOf(s) == IF cms[s] = None THEN 0 ELSE cms[s].total_count

\* A call s.update(item, count) of a worker.
CMSUpdate(s, item, count) ==
    /\ cms[s] # None
    /\ CMSTotalOf("A") + CMSTotalOf("B") + count <= MaxCMSTotal
    /\ IF CMSRaised(cms[s], item) # "None"
       THEN /\ cms' = cms
            /\ cmsTrue' = cmsTrue
            /\ cmsRet' = CMSRaised(cms[s], item)
       ELSE /\ cms' = [cms EXCEPT ![s] = CMSUpdated(cms[s], item, count)]
            /\ cmsTrue' = [cmsTrue EXCEPT ![s][item] = @ + count]
            /\ cmsRet' = "None"
    /\ UNCHANGED <<newRet, sha256, upd, updSerial, hashVars, bfVars, cbfVars, hllVars>>

\* A statement R = s1.merge(s2); when merge raises, R keeps what it was bound to.
CMSMerge(s1, s2) ==
    /\ cms[s1] # None
    /\ cms[s2] # None
    /\ cms[s1].total_count + cms[s2].total_count <= MaxCMSTotal
    /\ LET r == CMSMergeResult(cms[s1], cms[s2]) IN
       /\ cms' = [[cms EXCEPT ![s1] = r.self] EXCEPT
                     !["R"] = IF r.ok THEN r.merged ELSE @]
       /\ cmsTrue' = IF r.ok
                     THEN [cmsTrue EXCEPT
                             !["R"] = [x \in Items |-> cmsTrue[s1][x] + cmsTrue[s2][x]]]
                     ELSE cmsTrue
       /\ cmsRet' = IF r.ok THEN "CountMinSketch" ELSE "ValueError"
    /\ UNCHANGED <<newRet, sha256, upd, updSerial, hashVars, bfVars, cbfVars, hllVars>>

\* A call s.query(item); the sketch is only read. cmsRet holds the exception
\* raised, or "int" for an estimate returned.
CMSQueryCall(s, item) ==
    /\ cms[s] # None
    /\ cmsRet' = IF CMSQueryRaised(cms[s], item) # "None"
                 THEN CMSQueryRaised(cms[s], item)
                 ELSE "int"
    /\ UNCHANGED <<cms, cmsTrue, sha256, upd, updSerial,
                   hashVars, bfVars, cbfVars, hllVars,
                   newRet>>

\* A statement A = CountMinSketch(width, depth), the first constructor call
\* of a run.
CMSCreate(width, depth) ==
    /\ newRet = NoNew
    /\ LET r == CMSInit(width, depth) IN
       /\ cms' = IF r.raised # "None" THEN cms ELSE [cms EXCEPT !["A"] = r.obj]
       /\ newRet' = [cls |-> "CountMinSketch", args |-> <<width, depth>>,
                     value |-> IF r.raised # "None" THEN r.raised
                               ELSE "CountMinSketch"]
    /\ UNCHANGED <<cmsTrue, cmsRet, sha256, upd, updSerial,
                   hashVars, bfVars, cbfVars, hllVars>>

\* A thread that is not in a call of update.
NoCall == [item |-> "none", count |-> 0, pc |-> "done", row |-> 0, tmp |-> 0]

\* A call update(item, count) that has been made and has not run a step yet.
UpdCall(item, count) ==
    [item |-> item, count |-> count, pc |-> "read_cell", row |-> 0, tmp |-> 0]

\* Whether a call has not started or has returned.
UpdOutside(c) == c.pc = "done" \/ (c.pc = "read_cell" /\ c.row = 0)

\* The bug of storing count in the cell and in total_count instead of the
\* value read plus count.
UpdStepAssign(sk, c) ==
    IF c.pc = "read_cell"
    THEN [sk   |-> sk,
          call |-> [c EXCEPT !.tmp = sk.table[c.row][CMSHash(sk, c.item, c.row)],
                             !.pc = "write_cell"]]
    ELSE IF c.pc = "write_cell"
    THEN [sk   |-> [sk EXCEPT !.table[c.row][CMSHash(sk, c.item, c.row)] = c.count],
          call |-> [c EXCEPT !.row = @ + 1,
                             !.pc = IF c.row + 1 < sk.depth THEN "read_cell"
                                    ELSE "read_total"]]
    ELSE IF c.pc = "read_total"
    THEN [sk   |-> sk,
          call |-> [c EXCEPT !.tmp = sk.total_count, !.pc = "write_total"]]
    ELSE [sk   |-> [sk EXCEPT !.total_count = c.count],
          call |-> [c EXCEPT !.pc = "done"]]

\* One step of a call of update that is not done: `table[row][col] += count`
\* is a read of the cell and then a write of the value read plus count, and
\* `total_count += count` likewise; the sketch and the call afterwards.
UpdStep(sk, c) ==
    IF c.pc = "read_cell"
    THEN [sk   |-> sk,
          call |-> [c EXCEPT !.tmp = sk.table[c.row][CMSHash(sk, c.item, c.row)],
                             !.pc = "write_cell"]]
    ELSE IF c.pc = "write_cell"
    THEN [sk   |-> [sk EXCEPT !.table[c.row][CMSHash(sk, c.item, c.row)] =
                                  c.tmp + c.count],
          call |-> [c EXCEPT !.row = @ + 1,
                             !.pc = IF c.row + 1 < sk.depth THEN "read_cell"
                                    ELSE "read_total"]]
    ELSE IF c.pc = "read_total"
    THEN [sk   |-> sk,
          call |-> [c EXCEPT !.tmp = sk.total_count, !.pc = "write_total"]]
    ELSE [sk   |-> [sk EXCEPT !.total_count = c.tmp + c.count],
          call |-> [c EXCEPT !.pc = "done"]]

\* Thread t runs the next step of its call A.update(item, count); nothing
\* keeps the other thread from running steps of its own call in between.
CMSUpdateStep(t) ==
    /\ cms["A"] # None
    /\ upd[t].pc # "done"
    /\ LET r == UpdStep(cms["A"], upd[t]) IN
       /\ cms' = [cms EXCEPT !["A"] = r.sk]
       /\ upd' = [upd EXCEPT ![t] = r.call]
       /\ cmsTrue' = IF r.call.pc = "done"
                     THEN [cmsTrue EXCEPT !["A"][upd[t].item] = @ + upd[t].count]
                     ELSE cmsTrue
       /\ cmsRet' = IF r.call.pc = "done" THEN "None" ELSE cmsRet
    /\ updSerial' = (updSerial /\ \A u \in Threads \ {t} : UpdOutside(upd[u]))
    /\ UNCHANGED <<newRet, sha256, hashVars, bfVars, cbfVars, hllVars>>

(* ----------------------------- HyperLogLog ----------------------------- *)

\* The width of the hash: 8 digest bytes.
HashBits == 64

\* HyperLogLog.__init__ for a precision in [4, 18] (alpha, which only count()
\* reads, is left out).
HLLNew(precision) ==
    [precision     |-> precision,
     num_registers |-> 2 ^ precision,
     registers     |-> [j \in 0 .. (2 ^ precision) - 1 |-> 0]]

\* hash_value >> n, as a number.
RECURSIVE HLLShiftRight(_, _)
HLLShiftRight(h, n) ==
    IF \A i \in h : i < n THEN 0
    ELSE LET i == CHOOSE j \in h : j >= n IN
         2 ^ (i - n) + HLLShiftRight(h \ {i}, n)

\* hash_value & ((1 << n) - 1), as a set of bit positions.
HLLLowBits(h, n) == {i \in h : i < n}

\* The bug of a 0-indexed position: the zeros before the first set bit,
\* without the 1 for that bit.
RECURSIVE HLLCountLoopZeroBased(_, _, _)
HLLCountLoopZeroBased(value, i, zeros) ==
    IF i < 0 THEN zeros
    ELSE IF i \in value THEN zeros
    ELSE HLLCountLoopZeroBased(value, i - 1, zeros + 1)

\* The loop of _count_leading_zeros at bit i with `zeros` counted so far.
RECURSIVE HLLCountLoop(_, _, _)
HLLCountLoop(value, i, zeros) ==
    IF i < 0 THEN zeros + 1
    ELSE IF i \in value THEN zeros + 1
    ELSE HLLCountLoop(value, i - 1, zeros + 1)

\* HyperLogLog._count_leading_zeros(value, max_bits).
HLLCountLeadingZeros(value, max_bits) ==
    IF value = {} THEN max_bits + 1
    ELSE HLLCountLoop(value, max_bits - 1, 0)

\* max(a, b).
Max(a, b) == IF a >= b THEN a ELSE b

\* The register an item selects.
HLLIndex(h, item) == HLLShiftRight(hllHash[item], HashBits - h.precision)

\* The bug of counting the leading zeros over all 64 bits instead of the
\* 64 - p that remain.
HLLRhoFullWidth(h, item) ==
    HLLCountLeadingZeros(HLLLowBits(hllHash[item], HashBits - h.precision),
                         HashBits)

\* The rank rho of an item.
HLLRho(h, item) ==
    HLLCountLeadingZeros(HLLLowBits(hllHash[item], HashBits - h.precision),
                         HashBits - h.precision)

\* The bug of storing the rank of the last key instead of the maximum.
HLLAddedAssign(h, item) ==
    [h EXCEPT !.registers[HLLIndex(h, item)] = HLLRho(h, item)]

\* The bug of keeping the smaller of the old value and the rank.
HLLAddedMin(h, item) ==
    [h EXCEPT !.registers[HLLIndex(h, item)] =
                  IF @ <= HLLRho(h, item) THEN @ ELSE HLLRho(h, item)]

\* HyperLogLog.add(item): the object afterwards.
HLLAdded(h, item) ==
    [h EXCEPT !.registers[HLLIndex(h, item)] = Max(@, HLLRho(h, item))]

\* The bug of leaving out the precision check (a register the other lacks
\* counts as 0).
HLLMergeResultNoCheck(a, b) ==
    [ok     |-> TRUE,
     merged |-> [HLLNew(a.precision) EXCEPT
                   !.registers = [i \in 0 .. a.num_registers - 1 |->
                                     Max(a.registers[i],
                                         IF i < b.num_registers
                                         THEN b.registers[i] ELSE 0)]],
     self   |-> a]

\* The bug of keeping the other's register wherever self's is 0 and self's
\* register elsewhere, instead of the maximum.
HLLMergeResultFirstSet(a, b) ==
    IF a.precision # b.precision
    THEN [ok |-> FALSE, merged |-> None, self |-> a]
    ELSE [ok     |-> TRUE,
          merged |-> [HLLNew(a.precision) EXCEPT
                        !.registers = [i \in 0 .. a.num_registers - 1 |->
                                          IF a.registers[i] # 0 THEN a.registers[i]
                                          ELSE b.registers[i]]],
          self   |-> a]

\* The bug of taking the maxima into self and returning self.
HLLMergeResultInPlace(a, b) ==
    IF a.precision # b.precision
    THEN [ok |-> FALSE, merged |-> None, self |-> a]
    ELSE LET m == [a EXCEPT
                     !.registers = [i \in 0 .. a.num_registers - 1 |->
                                       Max(a.registers[i], b.registers[i])]]
         IN [ok |-> TRUE, merged |-> m, self |-> m]

\* HyperLogLog.merge(other) on self = a, other = b: whether it returned (ok)
\* or raised ValueError, the object returned, and self afterwards.
HLLMergeResult(a, b) ==
    IF a.precision # b.precision
    THEN [ok |-> FALSE, merged |-> None, self |-> a]
    ELSE [ok     |-> TRUE,
          merged |-> [HLLNew(a.precision) EXCEPT
                        !.registers = [i \in 0 .. a.num_registers - 1 |->
                                          Max(a.registers[i], b.registers[i])]],
          self   |-> a]

\* The bug of a lower limit that is off by one.
HLLInitFromThree(precision) ==
    IF ~(3 <= precision /\ precision <= 18)
    THEN [raised |-> "ValueError", obj |-> None]
    ELSE [raised |-> "None", obj |-> HLLNew(precision)]

\* HyperLogLog.__init__(precision): the exception raised or "None", and the
\* object constructed.
HLLInit(precision) ==
    IF ~(4 <= precision /\ precision <= 18)
    THEN [raised |-> "ValueError", obj |-> None]
    ELSE [raised |-> "None", obj |-> HLLNew(precision)]

\* A statement A = HyperLogLog(precision), the first constructor call of a
\* run; when it raises, no object exists.
HLLCreate(precision) ==
    /\ newRet = NoNew
    /\ LET r == HLLInit(precision) IN
       /\ hll' = IF r.raised # "None" THEN hll ELSE [hll EXCEPT !["A"] = r.obj]
       /\ newRet' = [cls |-> "HyperLogLog", args |-> <<precision>>,
                     value |-> IF r.raised # "None" THEN r.raised
                               ELSE "HyperLogLog"]
    /\ UNCHANGED <<hllHash, hllRet, hllRetInt, hllSeen,
                   hashVars, bfVars, cbfVars, cmsVars>>

\* A call s.add(item) of a worker.
HLLAdd(s, item) ==
    /\ hll[s] # None
    /\ hll' = [hll EXCEPT ![s] = HLLAdded(hll[s], item)]
    /\ hllRet' = "None"
    /\ hllRetInt' = 0
    /\ hllSeen' = [hllSeen EXCEPT ![s] = @ \cup {item}]
    /\ UNCHANGED <<newRet, hllHash, hashVars, bfVars, cbfVars, cmsVars>>

\* A statement R = s1.merge(s2); when merge raises, R keeps what it was bound to.
HLLMerge(s1, s2) ==
    /\ hll[s1] # None
    /\ hll[s2] # None
    /\ LET r == HLLMergeResult(hll[s1], hll[s2]) IN
       /\ hll' = [[hll EXCEPT ![s1] = r.self] EXCEPT
                     !["R"] = IF r.ok THEN r.merged ELSE @]
       /\ hllRet' = IF r.ok THEN "HyperLogLog" ELSE "ValueError"
       /\ hllRetInt' = 0
       /\ hllSeen' = IF r.ok
                     THEN [hllSeen EXCEPT !["R"] = hllSeen[s1] \cup hllSeen[s2]]
                     ELSE hllSeen
    /\ UNCHANGED <<newRet, hllHash, hashVars, bfVars, cbfVars, cmsVars>>

(* ------------------------ error-target factories ----------------------- *)

\* The scale of the fixed-point numbers that stand for the floats of the
\* factories.
Micro == 1000000

\* math.log(2), math.log(2) ** 2 and math.e, in millionths (truncated).
Ln2Micro == 693147
Ln2SqMicro == 480453
EMicro == 2718281

\* 0 < q < 1 for a number q = <<numerator, denominator>>, denominator > 0.
InUnitInterval(q) == 0 < q[1] /\ q[1] < q[2]

\* -math.log(q) in millionths (truncated), for the q it is taken of.
NegLnMicro ==
    [q \in {<<1, 5>>, <<1, 2>>, <<9, 10>>, <<1, 1>>} |->
        IF q = <<1, 5>> THEN 1609437
        ELSE IF q = <<1, 2>> THEN 693147
        ELSE IF q = <<9, 10>> THEN 105360
        ELSE 0]

\* math.ceil(a / b) for b > 0.
CeilDiv(a, b) == -((-a) \div b)

\* The bug of accepting a false_positive_rate of 1 (0 < p <= 1).
BFCreateOptimalResultClosed(expected_items, false_positive_rate) ==
    IF expected_items <= 0
    THEN [raised |-> "ValueError", obj |-> None]
    ELSE IF ~(0 < false_positive_rate[1]
                /\ false_positive_rate[1] <= false_positive_rate[2])
    THEN [raised |-> "ValueError", obj |-> None]
    ELSE LET num_bits ==
                 (expected_items * NegLnMicro[false_positive_rate]) \div Ln2SqMicro
             num_hashes ==
                 Max(1, (num_bits * Ln2Micro) \div (expected_items * Micro))
         IN BFInit(num_bits, num_hashes)

\* BloomFilter.create_optimal(expected_items, false_positive_rate): the
\* exception raised or "None", and the object constructed. int() of a
\* non-negative float is \div.
BFCreateOptimalResult(expected_items, false_positive_rate) ==
    IF expected_items <= 0
    THEN [raised |-> "ValueError", obj |-> None]
    ELSE IF ~InUnitInterval(false_positive_rate)
    THEN [raised |-> "ValueError", obj |-> None]
    ELSE LET num_bits ==
                 (expected_items * NegLnMicro[false_positive_rate]) \div Ln2SqMicro
             num_hashes ==
                 Max(1, (num_bits * Ln2Micro) \div (expected_items * Micro))
         IN BFInit(num_bits, num_hashes)

\* CountMinSketch.create_from_error_bounds(epsilon, delta): the exception
\* raised or "None", and the object constructed.
CMSFromErrorBoundsResult(epsilon, delta) ==
    IF ~InUnitInterval(epsilon)
    THEN [raised |-> "ValueError", obj |-> None]
    ELSE IF ~InUnitInterval(delta)
    THEN [raised |-> "ValueError", obj |-> None]
    ELSE LET width == CeilDiv(EMicro * epsilon[2], epsilon[1] * Micro)
             depth == CeilDiv(NegLnMicro[delta], Micro)
         IN CMSInit(width, depth)

\* A statement bf = BloomFilter.create_optimal(n, p), the first constructor
\* call of a run; when it raises, no object exists.
BFCreateOptimal(expected_items, false_positive_rate) ==
    /\ newRet = NoNew
    /\ LET r == BFCreateOptimalResult(expected_items, false_positive_rate) IN
       /\ bf' = IF r.raised # "None" THEN bf ELSE r.obj
       /\ newRet' = [cls |-> "BloomFilter.create_optimal",
                     args |-> <<expected_items, false_positive_rate>>,
                     value |-> IF r.raised # "None" THEN r.raised
                               ELSE "BloomFilter"]
    /\ UNCHANGED <<bfAdded, bfRet, hashVars, cbfVars, cmsVars, hllVars>>

\* A statement A = CountMinSketch.create_from_error_bounds(epsilon, delta),
\* the first constructor call of a run; when it raises, no object exists.
CMSCreateFromErrorBounds(epsilon, delta) ==
    /\ newRet = NoNew
    /\ LET r == CMSFromErrorBoundsResult(epsilon, delta) IN
       /\ cms' = IF r.raised # "None" THEN cms ELSE [cms EXCEPT !["A"] = r.obj]
       /\ newRet' = [cls |-> "CountMinSketch.create_from_error_bounds",
                     args |-> <<epsilon, delta>>,
                     value |-> IF r.raised # "None" THEN r.raised
                               ELSE "CountMinSketch"]
    /\ UNCHANGED <<cmsTrue, cmsRet, sha256, upd, updSerial,
                   hashVars, bfVars, cbfVars, hllVars>>

(* ---------------------------- float arithmetic ------------------------ *)

\* The floats of count() are kept as [m, e], standing for m * 2^e, with m = 0
\* or a mantissa of MantissaBits bits; results are truncated to that width.
MantissaBits == 15

\* m * 2^e brought to a mantissa of MantissaBits bits.
RECURSIVE FNorm(_, _)
FNorm(m, e) ==
    IF m = 0 THEN [m |-> 0, e |-> 0]
    ELSE IF m >= 2 ^ MantissaBits THEN FNorm(m \div 2, e + 1)
    ELSE IF m < 2 ^ (MantissaBits - 1) THEN FNorm(m * 2, e - 1)
    ELSE [m |-> m, e |-> e]

\* float(n) for an integer n >= 0.
FInt(n) == FNorm(n, 0)

\* 2.0 ** k.
FPow2(k) == FNorm(1, k)

\* a <= b and a < b on floats >= 0.
FLe(a, b) ==
    \/ a.m = 0
    \/ b.m # 0 /\ (a.e < b.e \/ (a.e = b.e /\ a.m <= b.m))

FLt(a, b) == ~FLe(b, a)

\* a + b on floats >= 0.
FAdd(a, b) ==
    IF a.m = 0 THEN b
    ELSE IF b.m = 0 THEN a
    ELSE LET hi == IF a.e >= b.e THEN a ELSE b
             lo == IF a.e >= b.e THEN b ELSE a
         IN IF hi.e - lo.e > MantissaBits THEN hi
            ELSE FNorm(hi.m * (2 ^ (hi.e - lo.e)) + lo.m, lo.e)

\* a - b on floats with a >= b >= 0.
FSub(a, b) ==
    IF b.m = 0 THEN a
    ELSE IF a.e - b.e > MantissaBits THEN a
    ELSE FNorm(a.m * (2 ^ (a.e - b.e)) - b.m, b.e)

\* a * b and a / b on floats >= 0 (b > 0 for the quotient).
FMul(a, b) == FNorm(a.m * b.m, a.e + b.e)

FDiv(a, b) ==
    FNorm((a.m * (2 ^ MantissaBits)) \div b.m, a.e - b.e - MantissaBits)

\* int(a) for a float a >= 0.
FTrunc(a) ==
    IF a.e >= 0 THEN a.m * (2 ^ a.e)
    ELSE IF -a.e >= MantissaBits THEN 0
    ELSE a.m \div (2 ^ (-a.e))

\* The number of terms the series of the logarithm is summed to.
LogTerms == 20

\* q + q^2/2 + ... from the n-th term on, pow = q^n: -log(1 - q), 0 <= q <= 1/2.
RECURSIVE FLogSeries(_, _, _)
FLogSeries(q, pow, n) ==
    IF n > LogTerms \/ pow.m = 0 THEN FInt(0)
    ELSE LET next == CHOOSE v \in {FMul(pow, q)} : TRUE
         IN FAdd(FDiv(pow, FInt(n)), FLogSeries(q, next, n + 1))

\* math.log(2).
FLn2 == FDiv(FInt(Ln2Micro), FInt(Micro))

\* -log(m / 2^MantissaBits) for the mantissa of a float x > 0, which lies in
\* [1/2, 1).
FNegLogMantissa(x) ==
    LET q == CHOOSE v \in {FSub(FInt(1), [m |-> x.m, e |-> -MantissaBits])} : TRUE
    IN FLogSeries(q, q, 1)

\* math.log(x) for a float x >= 1: x = (m / 2^MantissaBits) * 2^k with
\* k = e + MantissaBits, so log(x) = k * log(2) + log(m / 2^MantissaBits).
FLog(x) ==
    LET k == FMul(FInt(x.e + MantissaBits), FLn2)
        t == FNegLogMantissa(x)
    IN IF FLe(k, t) THEN FInt(0) ELSE FSub(k, t)

\* -math.log(x) for a float 0 < x <= 1.
FNegLog(x) ==
    FAdd(FNegLogMantissa(x), FMul(FInt(-(x.e + MantissaBits)), FLn2))

(* --------------------------- HyperLogLog.count ------------------------- *)

\* self.alpha, which __init__ takes from ALPHA_MAP for the precisions 4, 5 and
\* 6 and computes as 0.7213 / (1 + 1.079 / m) for the others.
HLLAlpha(h) ==
    IF h.precision = 4 THEN FDiv(FInt(673), FInt(1000))
    ELSE IF h.precision = 5 THEN FDiv(FInt(697), FInt(1000))
    ELSE IF h.precision = 6 THEN FDiv(FInt(709), FInt(1000))
    ELSE FDiv(FDiv(FInt(7213), FInt(10000)),
              FAdd(FInt(1), FDiv(FDiv(FInt(1079), FInt(1000)),
                                 FInt(h.num_registers))))

\* sum(2.0 ** (-r) for r in self.registers) over the registers 0 .. j.
RECURSIVE HLLHarmonicSum(_, _)
HLLHarmonicSum(registers, j) ==
    IF j < 0 THEN FInt(0)
    ELSE LET rest == CHOOSE v \in {HLLHarmonicSum(registers, j - 1)} : TRUE
         IN FAdd(rest, FPow2(-registers[j]))

\* self.registers.count(0).
HLLZeroRegisters(h) ==
    Cardinality({j \in 0 .. h.num_registers - 1 : h.registers[j] = 0})

\* The large-range correction -(1 << 32) * math.log(1 - raw / (1 << 32));
\* math.log raises ValueError for an argument <= 0.
HLLLargeRange(raw) ==
    LET q == CHOOSE v \in {FDiv(raw, FPow2(32))} : TRUE IN
    IF FLe(FInt(1), q)
    THEN [raised |-> "ValueError", value |-> FInt(0)]
    ELSE [raised |-> "None",
          value  |-> FMul(FPow2(32), FNegLog(FSub(FInt(1), q)))]

\* HyperLogLog.count(): the exception raised or "None", and the integer
\* returned (0 when it raises).
HLLCountResult(h) ==
    LET m == h.num_registers
        harmonic_sum == CHOOSE v \in {HLLHarmonicSum(h.registers, m - 1)} : TRUE
        raw_estimate == CHOOSE v \in
            {FDiv(FMul(HLLAlpha(h), FInt(m * m)), harmonic_sum)} : TRUE
        zero_registers == HLLZeroRegisters(h)
    IN IF harmonic_sum.m = 0 THEN [raised |-> "None", value |-> 0]
       ELSE IF /\ FLe(raw_estimate, FMul(FDiv(FInt(5), FInt(2)), FInt(m)))
               /\ zero_registers > 0
       THEN [raised |-> "None",
             value  |-> FTrunc(FMul(FInt(m),
                                    FLog(FDiv(FInt(m), FInt(zero_registers)))))]
       ELSE IF FLt(FDiv(FPow2(32), FInt(30)), raw_estimate)
       THEN LET r == HLLLargeRange(raw_estimate) IN
            [raised |-> r.raised,
             value  |-> IF r.raised # "None" THEN 0 ELSE FTrunc(r.value)]
       ELSE [raised |-> "None", value |-> FTrunc(raw_estimate)]

\* A call s.count(); the object is only read.
HLLCountCall(s) ==
    /\ hll[s] # None
    /\ LET r == HLLCountResult(hll[s]) IN
       /\ hllRet' = IF r.raised # "None" THEN r.raised ELSE "int"
       /\ hllRetInt' = r.value
    /\ UNCHANGED <<newRet, hllHash, hll, hllSeen, hashVars, bfVars, cbfVars, cmsVars>>

\* A call s.add(item) for the next key of the stream.
HLLAddNext(s) ==
    /\ Cardinality(hllSeen[s]) < Len(CountStream)
    /\ HLLAdd(s, CountStream[Cardinality(hllSeen[s]) + 1])

(* --------------------------- specifications ---------------------------- *)

\* No CountingBloomFilter is in use.
IdleCBF ==
    /\ cbf = CBFNew(1, 1, 1)
    /\ cbfNet = [x \in Items |-> 0]
    /\ cbfAddCalled = {}
    /\ cbfContract = TRUE
    /\ cbfRet = NoRet
    /\ cbfRT = NoRT
    /\ cbfOps = 0

\* No CountMinSketch is in use.
IdleCMS ==
    /\ sha256 = [k \in Items \X CMSRows |-> 0]
    /\ cms = [s \in CMSNames |-> None]
    /\ cmsTrue = [s \in CMSNames |-> [x \in Items |-> 0]]
    /\ cmsRet = "None"
    /\ upd = [t \in Threads |-> NoCall]
    /\ updSerial = TRUE

\* No HyperLogLog is in use.
IdleHLL ==
    /\ hllHash = [x \in Items |-> {}]
    /\ hll = [s \in HLLNames |-> None]
    /\ hllRet = "None"
    /\ hllRetInt = 0
    /\ hllSeen = [s \in HLLNames |-> {}]

\* No MD5 / SHA-1 digest is in use.
IdleHash ==
    /\ md5 = [x \in Items |-> 0]
    /\ sha1 = [x \in Items |-> 0]

\* No BloomFilter is in use.
IdleBF ==
    /\ bf = BFNew(1, 1)
    /\ bfAdded = {}
    /\ bfRet = NoRet

InitBF ==
    /\ newRet = NoNew
    /\ md5 \in [Items -> 0 .. MaxDigestBF]
    /\ sha1 \in [Items -> 0 .. MaxDigestBF]
    /\ \E s \in BFShapes : bf = BFNew(s[1], s[2])
    /\ bfAdded = {}
    /\ bfRet = NoRet
    /\ IdleCBF
    /\ IdleCMS
    /\ IdleHLL

NextBF ==
    \/ \E item \in Items : BFAdd(item)
    \/ \E item \in Items : BFQueryCall(item)

SpecBF == InitBF /\ [][NextBF]_vars

InitCBF ==
    /\ newRet = NoNew
    /\ md5 \in [Items -> 0 .. MaxDigestCBF]
    /\ sha1 \in [Items -> 0 .. MaxDigestCBF]
    /\ \E s \in CBFShapes : cbf = CBFNew(s[1], s[2], s[3])
    /\ cbfNet = [x \in Items |-> 0]
    /\ cbfAddCalled = {}
    /\ cbfContract = TRUE
    /\ cbfRet = NoRet
    /\ cbfRT = NoRT
    /\ cbfOps = 0
    /\ IdleBF
    /\ IdleCMS
    /\ IdleHLL

\* add, remove and query calls in any order.
NextCBF ==
    \/ \E item \in Items : CBFAdd(item)
    \/ \E item \in Items : CBFRemove(item)
    \/ \E item \in Items : CBFQueryCall(item)

SpecCBF == InitCBF /\ [][NextCBF]_vars

\* Add-only use: remove is never called.
NextCBFAdd ==
    \/ \E item \in Items : CBFAdd(item)
    \/ \E item \in Items : CBFQueryCall(item)

SpecCBFAdd == InitCBF /\ [][NextCBFAdd]_vars

\* Two CountMinSketch workers, freshly constructed.
StartCMS ==
    /\ sha256 \in [Items \X CMSRows -> CMSDigests]
    /\ \E p \in CMSShapes :
          cms = [s \in CMSNames |->
                    IF s = "A" THEN CMSNew(p[1][1], p[1][2])
                    ELSE IF s = "B" THEN CMSNew(p[2][1], p[2][2])
                    ELSE None]
    /\ cmsTrue = [s \in CMSNames |-> [x \in Items |-> 0]]
    /\ cmsRet = "None"
    /\ upd = [t \in Threads |-> NoCall]
    /\ updSerial = TRUE

InitCMS ==
    /\ newRet = NoNew
    /\ StartCMS
    /\ IdleHash
    /\ IdleBF
    /\ IdleCBF
    /\ IdleHLL

NextCMS ==
    \/ \E s \in CMSWorkers, item \in Items, count \in CMSCounts :
          CMSUpdate(s, item, count)
    \/ \E s1 \in CMSNames, s2 \in CMSNames : CMSMerge(s1, s2)

SpecCMS == InitCMS /\ [][NextCMS]_vars

\* Two HyperLogLog workers, freshly constructed.
StartHLL ==
    /\ hllHash \in [Items -> HLLHashes]
    /\ \E p \in HLLPrecisions :
          hll = [s \in HLLNames |->
                    IF s = "A" THEN HLLNew(p[1])
                    ELSE IF s = "B" THEN HLLNew(p[2])
                    ELSE None]
    /\ hllRet = "None"
    /\ hllRetInt = 0
    /\ hllSeen = [s \in HLLNames |-> {}]

InitHLL ==
    /\ newRet = NoNew
    /\ StartHLL
    /\ IdleHash
    /\ IdleBF
    /\ IdleCBF
    /\ IdleCMS

NextHLL ==
    \/ \E s \in HLLWorkers, item \in Items : HLLAdd(s, item)
    \/ \E s1 \in HLLNames, s2 \in HLLNames : HLLMerge(s1, s2)

SpecHLL == InitHLL /\ [][NextHLL]_vars

\* The mergeable sketches: a run works on CountMinSketch objects or on
\* HyperLogLog objects (the two kinds share no state).
InitMerge ==
    /\ newRet = NoNew
    /\ IdleHash
    /\ IdleBF
    /\ IdleCBF
    /\ \/ StartCMS /\ IdleHLL
       \/ StartHLL /\ IdleCMS

NextMerge == NextCMS \/ NextHLL

SpecMerge == InitMerge /\ [][NextMerge]_vars

\* Construction: nothing exists at first; a run makes one constructor or
\* factory call and then works on the object it got, if any.
InitNew ==
    /\ newRet = NoNew
    /\ md5 \in [Items -> {0, 1}]
    /\ sha1 = [x \in Items |-> 1]
    /\ bf = None
    /\ bfAdded = {}
    /\ bfRet = NoRet
    /\ cbf = None
    /\ cbfNet = [x \in Items |-> 0]
    /\ cbfAddCalled = {}
    /\ cbfContract = TRUE
    /\ cbfRet = NoRet
    /\ cbfRT = NoRT
    /\ cbfOps = 0
    /\ sha256 = [k \in Items \X CMSRows |-> IF k[1] = "a" THEN 0 ELSE 1]
    /\ cms = [s \in CMSNames |-> None]
    /\ cmsTrue = [s \in CMSNames |-> [x \in Items |-> 0]]
    /\ cmsRet = "None"
    /\ upd = [t \in Threads |-> NoCall]
    /\ updSerial = TRUE
    /\ hllHash = [x \in Items |-> IF x = "a" THEN {63} ELSE {59}]
    /\ hll = [s \in HLLNames |-> None]
    /\ hllRet = "None"
    /\ hllRetInt = 0
    /\ hllSeen = [s \in HLLNames |-> {}]

NextNew ==
    \/ \E a \in BFNewArgs : BFCreate(a[1], a[2])
    \/ \E n \in ExpectedItems, q \in Fractions : BFCreateOptimal(n, q)
    \/ \E a \in CBFNewArgs : CBFCreate(a[1], a[2], a[3])
    \/ \E a \in CMSNewArgs : CMSCreate(a[1], a[2])
    \/ \E e \in Fractions, d \in Fractions : CMSCreateFromErrorBounds(e, d)
    \/ \E precision \in HLLNewArgs : HLLCreate(precision)
    \/ \E item \in Items : BFAdd(item)
    \/ \E item \in Items : BFQueryCall(item)
    \/ \E item \in Items : CBFAdd(item)
    \/ \E item \in Items : CBFRemove(item)
    \/ \E item \in Items : CBFQueryCall(item)
    \/ \E item \in Items, count \in CMSCounts : CMSUpdate("A", item, count)
    \/ \E item \in Items : CMSQueryCall("A", item)
    \/ \E item \in Items : HLLAdd("A", item)

SpecNew == InitNew /\ [][NextNew]_vars

\* The hash of the n-th key of the stream: its register number in the top
\* four bits, in ascending or descending order of arrival, over the rank bits.
CountHash(n, descending, rank) ==
    LET j == IF descending THEN Len(CountStream) - n ELSE n - 1
    IN {60 + b : b \in {c \in 0 .. 3 : (j \div (2 ^ c)) % 2 = 1}} \cup rank

\* One HyperLogLog of precision 4 and a stream that has a key for every one
\* of its 16 registers.
InitCount ==
    /\ newRet = NoNew
    /\ \E descending \in BOOLEAN, rank \in CountRankBits :
          hllHash = [x \in {CountStream[n] : n \in 1 .. Len(CountStream)} |->
                        CountHash(CHOOSE n \in 1 .. Len(CountStream) :
                                      CountStream[n] = x,
                                  descending, rank)]
    /\ hll = [s \in HLLNames |-> IF s = "A" THEN HLLNew(4) ELSE None]
    /\ hllRet = "None"
    /\ hllRetInt = 0
    /\ hllSeen = [s \in HLLNames |-> {}]
    /\ IdleHash
    /\ IdleBF
    /\ IdleCBF
    /\ IdleCMS

\* The keys of the stream are added one by one; count() is called at any point.
NextCount ==
    \/ HLLAddNext("A")
    \/ HLLCountCall("A")

SpecCount == InitCount /\ [][NextCount]_vars

\* One BloomFilter and one CountMinSketch, freshly constructed; the digests
\* of key a are fixed and those of key b vary.
InitOrder ==
    /\ newRet = NoNew
    /\ md5 \in {f \in [Items -> {0, 1}] : f["a"] = 0}
    /\ sha1 \in [Items -> {1, 2}]
    /\ \E s \in BFShapes : bf = BFNew(s[1], s[2])
    /\ bfAdded = {}
    /\ bfRet = NoRet
    /\ sha256 \in {f \in [Items \X CMSRows -> CMSDigests] :
                      \A r \in CMSRows : f[<<"a", r>>] = 0}
    /\ cms = [s \in CMSNames |-> IF s = "A" THEN CMSNew(2, 2) ELSE None]
    /\ cmsTrue = [s \in CMSNames |-> [x \in Items |-> 0]]
    /\ cmsRet = "None"
    /\ upd = [t \in Threads |-> NoCall]
    /\ updSerial = TRUE
    /\ IdleCBF
    /\ IdleHLL

\* add calls on the filter and update calls on the sketch, in any order.
NextOrder ==
    \/ \E item \in Items : BFAdd(item)
    \/ \E item \in Items, count \in CMSCounts : CMSUpdate("A", item, count)

SpecOrder == InitOrder /\ [][NextOrder]_vars

\* One CountMinSketch shared by two threads, each of which has called update.
InitThreads ==
    /\ newRet = NoNew
    /\ sha256 \in [Items \X CMSRows -> CMSDigests]
    /\ cms = [s \in CMSNames |-> IF s = "A" THEN CMSNew(2, 2) ELSE None]
    /\ cmsTrue = [s \in CMSNames |-> [x \in Items |-> 0]]
    /\ cmsRet = "None"
    /\ upd \in [Threads -> {UpdCall(x, count) : x \in Items, count \in ThreadCounts}]
    /\ updSerial = TRUE
    /\ IdleHash
    /\ IdleBF
    /\ IdleCBF
    /\ IdleHLL

\* The threads run the steps of their calls in any interleaving.
NextThreads == \E t \in Threads : CMSUpdateStep(t)

SpecThreads == InitThreads /\ [][NextThreads]_vars

(* ------------------------------ claims --------------------------------- *)

\* C1: BloomFilter has no false negatives: after any sequence of add calls,
\* query(x) is true for every key x that was passed to add, and a query call
\* made on such a key returned True.
C1_NoFalseNegatives ==
    /\ \A x \in bfAdded : BFQuery(bf, x)
    /\ (bfRet.op = "query" /\ bfRet.item \in bfAdded) => bfRet.value = TRUE

\* Both keys were added (one of them twice), a query of an added key returned,
\* and the filter is not saturated: some bit is still clear.
C1_Witness ==
    /\ bfAdded = Items
    /\ bf.num_items = 3
    /\ bfRet.op = "query"
    /\ bfRet.value = TRUE
    /\ BFBitsSet(bf) # 0 .. bf.num_bits - 1
    /\ Cardinality(BFBitsSet(bf)) >= 3

\* The target counters two keys share.
CBFShared(x, y) ==
    {CBFHash(cbf, x, i) : i \in 0 .. cbf.num_hashes - 1}
        \cap {CBFHash(cbf, y, i) : i \in 0 .. cbf.num_hashes - 1}

\* C2 as stated: in add-only use, query(x) is true for every key x on which
\* add was called, whatever add returned (looked at in the states where every
\* counter is within [0, max_count]).
C2_AddCalledThenQuery ==
    (\A j \in 0 .. cbf.num_counters - 1 : cbf.counters[j] <= cbf.max_count) =>
        \A x \in cbfAddCalled : CBFQuery(cbf, x)

\* C2 amended: in add-only use, after a call add(x) that returned True,
\* query(x) is true and stays true over any further add calls; a query call on
\* such a key returned True.
C2_AddOnlyNoFalseNegatives ==
    /\ \A x \in Items : cbfNet[x] > 0 => CBFQuery(cbf, x)
    /\ (cbfRet.op = "add" /\ cbfRet.value = TRUE) => CBFQuery(cbf, cbfRet.item)
    /\ (cbfRet.op = "query" /\ cbfNet[cbfRet.item] > 0) => cbfRet.value = TRUE

\* Both keys were added successfully, they share a counter without having the
\* same targets, and a query of one of them returned.
C2_Witness ==
    /\ cbfNet["a"] > 0
    /\ cbfNet["b"] > 0
    /\ CBFShared("a", "b") # {}
    /\ CBFIndices(cbf, "a") # CBFIndices(cbf, "b")
    /\ cbfRet = [op |-> "query", item |-> "a", value |-> TRUE]

\* C3: while remove(y) was only ever called with y's successful adds
\* outnumbering its successful removes, query(x) is true for every key x whose
\* successful adds outnumber its successful removes.
C3_NoFalseNegativesUnderContract ==
    cbfContract =>
        /\ \A x \in Items : cbfNet[x] > 0 => CBFQuery(cbf, x)
        /\ (cbfRet.op = "query" /\ cbfNet[cbfRet.item] > 0) => cbfRet.value = TRUE

\* Key b was removed within the contract while key a, which shares a counter
\* with b, is still added.
C3_Witness ==
    /\ cbfContract
    /\ cbfRet = [op |-> "remove", item |-> "b", value |-> TRUE]
    /\ cbfNet["a"] > 0
    /\ cbfNet["b"] = 0
    /\ CBFShared("a", "b") # {}
    /\ CBFQuery(cbf, "a")

\* How many of the k seeds of item select counter j.
CBFMultiplicity(f, item, j) ==
    Cardinality({i \in 0 .. f.num_hashes - 1 : CBFHash(f, item, i) = j})

\* The effect of a successful add of item from f to g.
CBFAddedTo(f, g, item) ==
    /\ g.num_items = f.num_items + 1
    /\ \A j \in 0 .. f.num_counters - 1 :
          g.counters[j] = f.counters[j] + CBFMultiplicity(f, item, j)
    /\ \A i \in 0 .. f.num_hashes - 1 :
          g.counters[CBFHash(f, item, i)] > f.counters[CBFHash(f, item, i)]
    /\ [g EXCEPT !.counters = f.counters, !.num_items = f.num_items] = f

\* C5: add is all-or-nothing: if a target counter of the item equals
\* max_count, add returns False and the object is unchanged; otherwise every
\* target counter is incremented, num_items grows by 1 and add returns True.
C5_AddAllOrNothing ==
    [][cbfRet'.op = "add" =>
        IF \E i \in 0 .. cbf.num_hashes - 1 :
               cbf.counters[CBFHash(cbf, cbfRet'.item, i)] = cbf.max_count
        THEN cbfRet'.value = FALSE /\ cbf' = cbf
        ELSE cbfRet'.value = TRUE /\ CBFAddedTo(cbf, cbf', cbfRet'.item)]_vars

\* The effect of a successful remove of item from f to g.
CBFRemovedFrom(f, g, item) ==
    /\ g.num_items = f.num_items - 1
    /\ \A j \in 0 .. f.num_counters - 1 :
          /\ g.counters[j] >= 0
          /\ g.counters[j] =
                IF f.counters[j] > CBFMultiplicity(f, item, j)
                THEN f.counters[j] - CBFMultiplicity(f, item, j)
                ELSE 0
    /\ \A i \in 0 .. f.num_hashes - 1 :
          f.counters[CBFHash(f, item, i)] > 0 =>
              g.counters[CBFHash(f, item, i)] < f.counters[CBFHash(f, item, i)]
    /\ [g EXCEPT !.counters = f.counters, !.num_items = f.num_items] = f

\* C6: remove(x) returns False and changes nothing when query(x) is false;
\* when query(x) is true it decrements every target counter that is positive,
\* never below 0, leaves the other counters alone, decrements num_items by 1
\* and returns True.
C6_RemoveEffect ==
    [][cbfRet'.op = "remove" =>
        IF ~CBFQuery(cbf, cbfRet'.item)
        THEN cbfRet'.value = FALSE /\ cbf' = cbf
        ELSE cbfRet'.value = TRUE /\ CBFRemovedFrom(cbf, cbf', cbfRet'.item)]_vars

\* Key b was added; key a, never added, whose two seeds select one of b's
\* counters, was removed: the counter went from 1 to 0 and was not decremented
\* a second time. One more call was refused.
C6_Witness ==
    /\ cbfRet = [op |-> "remove", item |-> "a", value |-> TRUE]
    /\ CBFMultiplicity(cbf, "a", CBFHash(cbf, "a", 0)) = 2
    /\ cbfNet = [x \in Items |-> IF x = "b" THEN 1 ELSE -1]
    /\ cbf.counters[CBFHash(cbf, "a", 0)] = 0
    /\ cbf.num_items = 0
    /\ cbfOps = 3

RECURSIVE SumNet(_)
\* The sum of cbfNet over a set of keys.
SumNet(S) ==
    IF S = {} THEN 0
    ELSE LET x == CHOOSE y \in S : TRUE IN cbfNet[x] + SumNet(S \ {x})

\* C7: a successful add(x) directly followed by a successful remove(x), from a
\* state where query(x) was false, leaves query(x) false; and num_items is the
\* number of successful adds minus the number of successful removes, so
\* balanced pairs leave it where it was.
C7_RoundTrip ==
    /\ (cbfRT.stage = "removed" /\ ~cbfRT.preQuery) => ~CBFQuery(cbf, cbfRT.item)
    /\ cbf.num_items = SumNet(Items)

\* Key a went through add; remove while key b, sharing one of its counters,
\* stays added.
C7_Witness ==
    /\ cbfRT = [stage |-> "removed", item |-> "a", preQuery |-> FALSE]
    /\ cbfNet = [x \in Items |-> IF x = "b" THEN 1 ELSE 0]
    /\ CBFShared("a", "b") # {}
    /\ cbf.num_items = 1
    /\ ~CBFQuery(cbf, "a")
    /\ CBFQuery(cbf, "b")

\* The sketches bound to names.
CMSBound == {s \in CMSNames : cms[s] # None}

\* C4: CountMinSketch never under-counts: for every sketch built by updates
\* with non-negative counts and by merges, and every key x, query(x) is at
\* least the sum of the counts passed to update for x.
C4_NeverUnderCounts ==
    \A s \in CMSBound : \A x \in Items : CMSQuery(cms[s], x) >= cmsTrue[s][x]

\* A merge result in which a key that was counted is over-estimated because
\* of a collision, while both workers hold updates.
C4_Witness ==
    /\ cms["R"] # None
    /\ cms["A"].total_count > 0
    /\ cms["B"].total_count > 0
    /\ \E x \in Items :
          /\ cmsTrue["R"][x] > 0
          /\ CMSQuery(cms["R"], x) > cmsTrue["R"][x]

\* Two sketches have the same shape.
CMSSameShape(a, b) == a.width = b.width /\ a.depth = b.depth

\* C8: merge of two sketches of equal width and depth returns a new sketch
\* of that shape whose every cell is the sum of the operands' cells and whose
\* total_count is the sum of theirs, and leaves the operands as they were
\* (the workers keep their objects whichever names the operands have).
C8_MergeSumsCells ==
    [][\A s1 \in CMSNames, s2 \in CMSNames :
          (CMSMerge(s1, s2) /\ CMSSameShape(cms[s1], cms[s2])) =>
              /\ cmsRet' = "CountMinSketch"
              /\ cms'["R"].width = cms[s1].width
              /\ cms'["R"].depth = cms[s1].depth
              /\ \A r \in 0 .. cms[s1].depth - 1 : \A c \in 0 .. cms[s1].width - 1 :
                    cms'["R"].table[r][c] = cms[s1].table[r][c] + cms[s2].table[r][c]
              /\ cms'["R"].total_count = cms[s1].total_count + cms[s2].total_count
              /\ \A s \in CMSWorkers : cms'[s] = cms[s]]_vars

\* R is the merge of the workers A and B, each holding one update, and the
\* two updates meet in a cell.
C8_Witness ==
    /\ cmsRet = "CountMinSketch"
    /\ cms["A"].total_count = 1
    /\ cms["B"].total_count = 1
    /\ cms["R"] # None
    /\ cms["R"] = CMSMergeResult(cms["A"], cms["B"]).merged
    /\ \E r \in 0 .. cms["R"].depth - 1 : \E c \in 0 .. cms["R"].width - 1 :
          cms["R"].table[r][c] = 2

\* C9: a merge of CountMinSketches of different width or depth, and a merge
\* of HyperLogLogs of different precision, raises ValueError and changes
\* nothing: the operands and the name the result would be bound to stay as
\* they were.
C9_MergeMismatchAllOrNothing ==
    [][/\ \A s1 \in CMSNames, s2 \in CMSNames :
             (CMSMerge(s1, s2) /\ ~CMSSameShape(cms[s1], cms[s2])) =>
                 cmsRet' = "ValueError" /\ cms' = cms
       /\ \A s1 \in HLLNames, s2 \in HLLNames :
             (HLLMerge(s1, s2) /\ hll[s1].precision # hll[s2].precision) =>
                 hllRet' = "ValueError" /\ hll' = hll]_vars

\* A merge of two workers of different shape was refused while R is bound to
\* an earlier merge result and both workers hold an update.
C9_Witness ==
    /\ cmsRet = "ValueError"
    /\ ~CMSSameShape(cms["A"], cms["B"])
    /\ cms["A"].total_count = 1
    /\ cms["B"].total_count = 1
    /\ cms["R"] # None
    /\ cms["R"].total_count = 2

\* The HyperLogLogs bound to names.
HLLBound == {s \in HLLNames : hll[s] # None}

\* merge as a function of its operands.
CMSMerged(a, b) == CMSMergeResult(a, b).merged
HLLMerged(a, b) == HLLMergeResult(a, b).merged

\* C10: merge is commutative and associative, exactly: for all same-shaped
\* sketches x, y, z, merge(merge(x,y),z), merge(x,merge(y,z)) and
\* merge(merge(x,z),y) are the same object value (table cells and
\* total_count for CountMinSketch, registers for HyperLogLog), and
\* merge(x,y) equals merge(y,x).
C10_MergeCommutesAssociates ==
    /\ \A x \in CMSBound, y \in CMSBound, z \in CMSBound :
          (CMSSameShape(cms[x], cms[y]) /\ CMSSameShape(cms[y], cms[z])) =>
              /\ CMSMerged(CMSMerged(cms[x], cms[y]), cms[z])
                    = CMSMerged(cms[x], CMSMerged(cms[y], cms[z]))
              /\ CMSMerged(CMSMerged(cms[x], cms[y]), cms[z])
                    = CMSMerged(CMSMerged(cms[x], cms[z]), cms[y])
              /\ CMSMerged(cms[x], cms[y]) = CMSMerged(cms[y], cms[x])
    /\ \A x \in HLLBound, y \in HLLBound, z \in HLLBound :
          (hll[x].precision = hll[y].precision
              /\ hll[y].precision = hll[z].precision) =>
              /\ HLLMerged(HLLMerged(hll[x], hll[y]), hll[z])
                    = HLLMerged(hll[x], HLLMerged(hll[y], hll[z]))
              /\ HLLMerged(HLLMerged(hll[x], hll[y]), hll[z])
                    = HLLMerged(HLLMerged(hll[x], hll[z]), hll[y])
              /\ HLLMerged(hll[x], hll[y]) = HLLMerged(hll[y], hll[x])

\* Three same-shaped sketches with pairwise different tables, one of them a
\* merge result.
C10_Witness ==
    /\ CMSBound = CMSNames
    /\ CMSSameShape(cms["A"], cms["B"])
    /\ CMSSameShape(cms["A"], cms["R"])
    /\ cms["A"].table # cms["B"].table
    /\ cms["A"].table # cms["R"].table
    /\ cms["B"].table # cms["R"].table
    /\ cms["A"].total_count > 0
    /\ cms["B"].total_count > 0

\* A single instance of a precision that received the keys of a sequence,
\* one add call after the other.
RECURSIVE HLLOfSeq(_, _)
HLLOfSeq(precision, q) ==
    IF Len(q) = 0 THEN HLLNew(precision)
    ELSE LET h == HLLOfSeq(precision, SubSeq(q, 1, Len(q) - 1))
         IN HLLAdded(h, q[Len(q)])

\* The orders in which a single instance can receive the keys of a set.
HLLOrders(S) ==
    {q \in [1 .. Cardinality(S) -> S] : {q[n] : n \in DOMAIN q} = S}

\* C11: merge of two HyperLogLogs of equal precision, built by add over the
\* streams S1 and S2, returns a new instance whose registers are the
\* element-wise maximum of the operands' registers; that register array is
\* the one of a single instance that received every key of S1 and S2, in any
\* order; the operands are left as they were.
C11_MergeLossless ==
    [][\A s1 \in HLLNames, s2 \in HLLNames :
          (HLLMerge(s1, s2) /\ hll[s1].precision = hll[s2].precision) =>
              /\ hllRet' = "HyperLogLog"
              /\ hll'["R"].precision = hll[s1].precision
              /\ hll'["R"].num_registers = hll[s1].num_registers
              /\ \A i \in 0 .. hll[s1].num_registers - 1 :
                    hll'["R"].registers[i]
                        = Max(hll[s1].registers[i], hll[s2].registers[i])
              /\ \A q \in HLLOrders(hllSeen[s1] \cup hllSeen[s2]) :
                    hll'["R"].registers
                        = HLLOfSeq(hll[s1].precision, q).registers
              /\ \A s \in HLLWorkers : hll'[s] = hll[s]]_vars

\* R is the merge of worker A, which received key a, and worker B, which
\* received key b; the two keys select different registers, so R differs from
\* both operands.
C11_Witness ==
    /\ hllRet = "HyperLogLog"
    /\ hllSeen = [s \in HLLNames |->
                     IF s = "A" THEN {"a"} ELSE IF s = "B" THEN {"b"} ELSE Items]
    /\ hll["R"] # None
    /\ hll["R"].registers # hll["A"].registers
    /\ hll["R"].registers # hll["B"].registers
    /\ hll["R"].registers = HLLOfSeq(hll["A"].precision, <<"b", "a">>).registers

\* One sketch that processed a whole stream: sk after an update of every key
\* of S with the count the stream holds for it.
RECURSIVE CMSOfStream(_, _, _)
CMSOfStream(sk, S, totals) ==
    IF S = {} THEN sk
    ELSE LET x == CHOOSE y \in S : TRUE
             rest == CMSOfStream(sk, S \ {x}, totals)
         IN CMSUpdated(rest, x, totals[x])

\* C12: however a stream of updates is split among same-shaped sketches and
\* in whatever order each processes its part, the sketch the parts merge into
\* has the table and the total_count of one sketch that processed the whole
\* stream: every sketch, worker or merge result, is the one a single sketch
\* gets from the counts of its stream.
C12_PartitionedIngestionExact ==
    \A s \in CMSBound :
        LET one == CMSOfStream(CMSNew(cms[s].width, cms[s].depth), Items,
                               cmsTrue[s])
        IN /\ cms[s].table = one.table
           /\ cms[s].total_count = one.total_count

\* The stream a:1, b:1 was split between the workers A and B and R is their
\* merge; the two keys do not have the same cells.
C12_Witness ==
    /\ cmsRet = "CountMinSketch"
    /\ cms["R"] # None
    /\ cmsTrue["A"] = [x \in Items |-> IF x = "a" THEN 1 ELSE 0]
    /\ cmsTrue["B"] = [x \in Items |-> IF x = "b" THEN 1 ELSE 0]
    /\ cmsTrue["R"] = [x \in Items |-> 1]
    /\ cms["R"].total_count = 2
    /\ cms["A"].table # cms["B"].table
    /\ cms["R"].table # cms["A"].table

\* C13: add is idempotent and order-independent: adding a key a HyperLogLog
\* has received leaves every register as it is, and the registers reached by
\* any sequence of add calls (any order, any multiplicities) are those of an
\* instance that received each key of the sequence once, in any order.
C13_AddIdempotentOrderFree ==
    \A s \in HLLBound :
        /\ \A x \in hllSeen[s] : HLLAdded(hll[s], x).registers = hll[s].registers
        /\ \A q \in HLLOrders(hllSeen[s]) :
              hll[s].registers = HLLOfSeq(hll[s].precision, q).registers

\* Worker A received both keys; they select the same register with different
\* ranks, so the order of the two add calls could matter.
C13_Witness ==
    /\ hllSeen["A"] = Items
    /\ HLLIndex(hll["A"], "a") = HLLIndex(hll["A"], "b")
    /\ HLLRho(hll["A"], "a") < HLLRho(hll["A"], "b")
    /\ hll["A"].registers[HLLIndex(hll["A"], "a")] = HLLRho(hll["A"], "b")
    /\ hllSeen["B"] = {"a"}

\* C14: registers only move upward: no step lowers a register of a worker,
\* and a call s.add(x) changes at most the register x's hash selects, which
\* becomes the maximum of its old value and x's rank; every other register,
\* the dimensions and the other instances stay as they were.
C14_RegistersOnlyGrow ==
    [][/\ \A s \in HLLWorkers : \A j \in 0 .. hll[s].num_registers - 1 :
             hll'[s].registers[j] >= hll[s].registers[j]
       /\ \A s \in HLLWorkers, x \in Items :
             HLLAdd(s, x) =>
                 LET idx == HLLIndex(hll[s], x)
                     rho == HLLRho(hll[s], x)
                 IN /\ \A j \in 0 .. hll[s].num_registers - 1 :
                          j # idx => hll'[s].registers[j] = hll[s].registers[j]
                    /\ hll'[s].registers[idx]
                          = (IF hll[s].registers[idx] >= rho
                             THEN hll[s].registers[idx] ELSE rho)
                    /\ hll'[s].precision = hll[s].precision
                    /\ hll'[s].num_registers = hll[s].num_registers
                    /\ \A t \in HLLNames : t # s => hll'[t] = hll[t]]_vars

\* Worker A received both keys and holds the larger rank in the register
\* they share; worker B received the key of the smaller rank only and holds
\* that rank there: the add of that key to A after the other changed nothing.
C14_Witness ==
    /\ hllSeen["A"] = Items
    /\ hllSeen["B"] = {"b"}
    /\ hll["A"].precision = hll["B"].precision
    /\ HLLIndex(hll["A"], "a") = HLLIndex(hll["A"], "b")
    /\ HLLRho(hll["A"], "a") > HLLRho(hll["A"], "b")
    /\ hll["A"].registers[HLLIndex(hll["A"], "a")] = HLLRho(hll["A"], "a")
    /\ hll["B"].registers[HLLIndex(hll["B"], "b")] = HLLRho(hll["B"], "b")
    /\ hll["B"].registers[HLLIndex(hll["B"], "b")] > 0

\* C15: BloomFilter bits are monotonic: a bit that is set before a step is
\* set after it, in every byte of the array, whatever the operation; the
\* length of the array and the dimensions do not change either.
C15_BitsMonotonic ==
    [][/\ DOMAIN bf'.bits = DOMAIN bf.bits
       /\ bf'.num_bits = bf.num_bits
       /\ \A j \in DOMAIN bf.bits : BitAnd(bf.bits[j], bf'.bits[j]) = bf.bits[j]
       /\ \A j \in 0 .. bf.num_bits - 1 :
             BFGetBit(bf.bits, j) => BFGetBit(bf'.bits, j)]_vars

\* Both keys were added, one of them twice; they share a bit, and bits are
\* set in both bytes of the array.
C15_Witness ==
    /\ bfRet.op = "add"
    /\ bf.num_items = 3
    /\ bfAdded = Items
    /\ \E i \in 0 .. bf.num_hashes - 1, j \in 0 .. bf.num_hashes - 1 :
          BFHash(bf, "a", i) = BFHash(bf, "b", j)
    /\ \E j \in BFBitsSet(bf) : j >= 8
    /\ \E j \in BFBitsSet(bf) : j < 8
    /\ Cardinality(BFBitsSet(bf)) = 3

\* C16: in every state reachable by add and remove calls, every counter lies
\* in [0, max_count], with max_count = 2^counter_bits - 1, also when several
\* of a key's hash indices coincide.
C16_CounterBounds ==
    /\ cbf.max_count = (2 ^ cbf.counter_bits) - 1
    /\ \A j \in 0 .. cbf.num_counters - 1 :
          cbf.counters[j] >= 0 /\ cbf.counters[j] <= cbf.max_count

\* C17: BloomFilter(num_bits, num_hashes) fails with InvalidParameter
\* (ValueError) when num_bits <= 0 or num_hashes < 1, and no object is
\* created, so no BloomFilter with such dimensions ever exists.
C17_BloomFilterRejectsBadSizes ==
    /\ (newRet.cls = "BloomFilter"
           /\ (newRet.args[1] <= 0 \/ newRet.args[2] < 1)) =>
           newRet.value = "ValueError" /\ bf = None
    /\ bf # None => bf.num_bits > 0 /\ bf.num_hashes >= 1

\* C18: malformed sizes are detected at construction and never later:
\* CountMinSketch(width, depth) with a non-positive width or depth, and
\* CountingBloomFilter(num_counters, num_hashes, ...) with a non-positive
\* num_counters or num_hashes < 1, fail with InvalidParameter (ValueError)
\* and create nothing, so no add, remove, update or query on a constructed
\* structure raises because of its dimensions.
C18_SizesCheckedAtConstruction ==
    /\ (newRet.cls = "CountMinSketch"
           /\ (newRet.args[1] <= 0 \/ newRet.args[2] <= 0)) =>
           newRet.value = "ValueError" /\ cms["A"] = None
    /\ (newRet.cls = "CountingBloomFilter"
           /\ (newRet.args[1] <= 0 \/ newRet.args[2] < 1)) =>
           newRet.value = "ValueError" /\ cbf = None
    /\ cbf # None => \A x \in Items : CBFRaised(cbf, x) = "None"
    /\ cms["A"] # None =>
           \A x \in Items : /\ CMSRaised(cms["A"], x) = "None"
                            /\ CMSQueryRaised(cms["A"], x) = "None"
    /\ cmsRet \notin {"ZeroDivisionError", "IndexError", "OverflowError"}

\* No structure of any kind exists.
NothingExists ==
    /\ bf = None
    /\ cbf = None
    /\ \A s \in CMSNames : cms[s] = None
    /\ \A s \in HLLNames : hll[s] = None

\* A number <<numerator, denominator>> lies strictly between 0 and 1.
Between0And1(q) == q[1] > 0 /\ q[2] > q[1]

\* C19: the error-target factories validate before constructing:
\* create_optimal fails with InvalidParameter (ValueError) when
\* expected_items <= 0 or false_positive_rate is not strictly between 0 and
\* 1; create_from_error_bounds fails unless epsilon and delta both are
\* strictly between 0 and 1, and succeeds when they are; on failure no
\* structure exists.
C19_FactoriesValidate ==
    /\ newRet.cls = "BloomFilter.create_optimal" =>
           IF newRet.args[1] <= 0 \/ ~Between0And1(newRet.args[2])
           THEN newRet.value = "ValueError" /\ NothingExists
           ELSE newRet.value = "BloomFilter" /\ bf # None
    /\ newRet.cls = "CountMinSketch.create_from_error_bounds" =>
           IF Between0And1(newRet.args[1]) /\ Between0And1(newRet.args[2])
           THEN newRet.value = "CountMinSketch" /\ cms["A"] # None
           ELSE newRet.value = "ValueError" /\ NothingExists

\* create_from_error_bounds was called with a valid epsilon and with delta =
\* 1, the end of the interval; it raised and nothing exists.
C19_Witness ==
    /\ newRet = [cls |-> "CountMinSketch.create_from_error_bounds",
                 args |-> << <<1, 2>>, <<1, 1>> >>, value |-> "ValueError"]
    /\ NothingExists

\* C20: HyperLogLog(precision) fails with InvalidParameter (ValueError)
\* unless 4 <= precision <= 18, and then nothing exists; on success
\* num_registers is 2^precision and every register is 0; precision and
\* num_registers of an instance never change afterwards.
C20_PrecisionChecked ==
    [][/\ (newRet' # newRet /\ newRet'.cls = "HyperLogLog") =>
             IF 4 <= newRet'.args[1] /\ newRet'.args[1] <= 18
             THEN /\ newRet'.value = "HyperLogLog"
                  /\ hll'["A"] # None
                  /\ hll'["A"].precision = newRet'.args[1]
                  /\ hll'["A"].num_registers = 2 ^ newRet'.args[1]
                  /\ hll'["A"].registers
                        = [j \in 0 .. (2 ^ newRet'.args[1]) - 1 |-> 0]
             ELSE newRet'.value = "ValueError" /\ hll' = hll /\ NothingExists
       /\ \A s \in HLLNames :
             hll[s] # None =>
                 /\ hll'[s] # None
                 /\ hll'[s].precision = hll[s].precision
                 /\ hll'[s].num_registers = hll[s].num_registers
                 /\ hll[s].num_registers = 2 ^ hll[s].precision
                 /\ DOMAIN hll'[s].registers = 0 .. hll[s].num_registers - 1]_vars

\* HyperLogLog(18), the largest precision accepted, was constructed and
\* received both keys.
C20_Witness ==
    /\ newRet = [cls |-> "HyperLogLog", args |-> <<18>>, value |-> "HyperLogLog"]
    /\ hll["A"] # None
    /\ hll["A"].num_registers = 262144
    /\ hllSeen["A"] = Items
    /\ hll["A"].registers # [j \in 0 .. 262143 |-> 0]

\* a / b rounded to the nearest integer, for a >= 0 and b > 0.
RoundDiv(a, b) == (2 * a + b) \div (2 * b)

\* C21: create_optimal(n, p) derives m = ceil(-n*ln(p) / (ln 2)^2) and
\* k = max(1, round((m/n)*ln 2)): the filter it returns has these dimensions,
\* and keeps them.
C21_OptimalDimensions ==
    (newRet.cls = "BloomFilter.create_optimal" /\ newRet.value = "BloomFilter") =>
        LET n == newRet.args[1]
            m == CeilDiv(n * NegLnMicro[newRet.args[2]], Ln2SqMicro)
            k == IF RoundDiv(m * Ln2Micro, n * Micro) >= 1
                 THEN RoundDiv(m * Ln2Micro, n * Micro) ELSE 1
        IN bf.num_bits = m /\ bf.num_hashes = k

\* The positions of the bits set in a byte array, unused bits of the last
\* byte included.
BFArrayBits(bits) ==
    {j \in 0 .. 8 * Cardinality(DOMAIN bits) - 1 : BFGetBit(bits, j)}

\* C22: add(x) sets exactly the bits at the k indices derived for x, all of
\* them in [0, m), leaves every other bit of the array as it was, and
\* increments num_items by exactly 1, also when all of x's bits were set
\* before; the dimensions do not change.
C22_AddSetsExactlyItsBits ==
    [][\A x \in Items :
          BFAdd(x) =>
              LET idx == {BFHash(bf, x, i) : i \in 0 .. bf.num_hashes - 1} IN
              /\ idx \subseteq 0 .. bf.num_bits - 1
              /\ BFArrayBits(bf'.bits) = BFArrayBits(bf.bits) \cup idx
              /\ bf'.num_items = bf.num_items + 1
              /\ bf'.num_bits = bf.num_bits
              /\ bf'.num_hashes = bf.num_hashes
              /\ bfRet'.value = "None"]_vars

\* Key a was added three times and key b never; a's three indices are
\* different and no other bit is set.
C22_Witness ==
    /\ bfRet = [op |-> "add", item |-> "a", value |-> "None"]
    /\ bfAdded = {"a"}
    /\ bf.num_items = 3
    /\ bf.num_hashes = 3
    /\ Cardinality({BFHash(bf, "a", i) : i \in 0 .. 2}) = 3
    /\ BFBitsSet(bf) = {BFHash(bf, "a", i) : i \in 0 .. 2}

\* C23: update(item, count) adds count to exactly one cell in each row, the
\* one in the column the row-salted hash of the item gives modulo width, adds
\* count to total_count and leaves every other cell, the shape and the other
\* sketches as they were.
C23_UpdateOneCellPerRow ==
    [][\A s \in CMSWorkers, x \in Items, count \in CMSCounts :
          CMSUpdate(s, x, count) =>
              /\ \A r \in 0 .. cms[s].depth - 1 : \A c \in 0 .. cms[s].width - 1 :
                    cms'[s].table[r][c] =
                        cms[s].table[r][c]
                            + (IF c = sha256[<<x, r>>] % cms[s].width
                               THEN count ELSE 0)
              /\ cms'[s].total_count = cms[s].total_count + count
              /\ cms'[s].width = cms[s].width
              /\ cms'[s].depth = cms[s].depth
              /\ \A t \in CMSNames : t # s => cms'[t] = cms[t]
              /\ cmsRet' = "None"]_vars

\* Worker A, two rows of two cells, received one update of each key; the
\* keys have different cells in row 0 and the same cell in row 1.
C23_Witness ==
    /\ cmsRet = "None"
    /\ cms["A"].width = 2
    /\ cms["A"].depth = 2
    /\ cmsTrue["A"] = [x \in Items |-> 1]
    /\ cms["A"].total_count = 2
    /\ CMSHash(cms["A"], "a", 0) # CMSHash(cms["A"], "b", 0)
    /\ CMSHash(cms["A"], "a", 1) = CMSHash(cms["A"], "b", 1)
    /\ cms["A"].table[1][CMSHash(cms["A"], "a", 1)] = 2
    /\ cms["B"].total_count = 0

\* C24: add splits the 64-bit hash: the top p bits, read as a number, are the
\* register index, which lies in [0, 2^p); rho is the 1-indexed position of
\* the leftmost set bit among the remaining 64-p bits, and 64-p+1 when none
\* of them is set, so rho lies in [1, 64-p+1]; a key that was added left at
\* least its rho in the register of its index.
C24_HashSplit ==
    \A s \in HLLBound : \A x \in Items :
        LET p    == hll[s].precision
            rest == {i \in hllHash[x] : i < 64 - p}
            idx  == HLLIndex(hll[s], x)
            rho  == HLLRho(hll[s], x)
        IN /\ idx \in 0 .. (2 ^ p) - 1
           /\ \A b \in 0 .. p - 1 :
                 ((idx \div (2 ^ b)) % 2 = 1) <=> ((64 - p + b) \in hllHash[x])
           /\ rho = IF rest = {} THEN 64 - p + 1
                    ELSE (64 - p) - (CHOOSE i \in rest : \A j \in rest : j <= i)
           /\ rho \in 1 .. 64 - p + 1
           /\ x \in hllSeen[s] => hll[s].registers[idx] >= rho

\* Key a, whose hash has bit 59 alone, was added to worker A of precision 4,
\* where bit 59 is the first of the remaining bits (rho = 1 in register 0),
\* and to worker B of precision 5, where it is the last index bit (register
\* 1) and the remaining bits are all zero (rho = 60).
C24_Witness ==
    /\ hllHash["a"] = {59}
    /\ hll["A"].precision = 4
    /\ hll["B"].precision = 5
    /\ "a" \in hllSeen["A"]
    /\ "a" \in hllSeen["B"]
    /\ hll["A"].registers[0] = 1
    /\ hll["B"].registers[1] = 60

\* C25: in every state reachable by add and remove calls, also removes of keys
\* never added that pass the membership test and keys whose hash indices
\* coincide, num_items of the CountingBloomFilter is not negative.
C25_NumItemsNonNegative == cbf.num_items >= 0

\* The sum of the cells 0 .. c of a row.
RECURSIVE CMSRowSum(_, _)
CMSRowSum(row, c) == IF c < 0 THEN 0 ELSE row[c] + CMSRowSum(row, c - 1)

\* C26: in every state reachable by update calls (with non-negative counts)
\* and merges, the cells of each row of a sketch sum to its total_count, and
\* so, for depth >= 1, query(x) <= total_count for every key x.
C26_RowSumsEqualTotal ==
    \A s \in CMSBound :
        /\ \A r \in 0 .. cms[s].depth - 1 :
              CMSRowSum(cms[s].table[r], cms[s].width - 1) = cms[s].total_count
        /\ cms[s].depth >= 1 =>
              \A x \in Items : CMSQuery(cms[s], x) <= cms[s].total_count

\* Both workers were updated and merged; the merged sketch holds two counts
\* in different cells of one row, so a query is strictly below total_count.
C26_Witness ==
    /\ cms["R"] # None
    /\ cms["A"].total_count = 1
    /\ cms["B"].total_count = 1
    /\ cms["R"].total_count = 2
    /\ \E r \in 0 .. cms["R"].depth - 1 :
          \E c1 \in 0 .. cms["R"].width - 1, c2 \in 0 .. cms["R"].width - 1 :
              c1 # c2 /\ cms["R"].table[r][c1] = 1 /\ cms["R"].table[r][c2] = 1
    /\ CMSQuery(cms["R"], "a") = 1

\* C27: in every state reachable by add and merge calls, every register of
\* an instance of precision p is 0 or lies in [1, 64-p+1].
C27_RegisterRange ==
    \A s \in HLLBound :
        \A j \in 0 .. hll[s].num_registers - 1 :
            \/ hll[s].registers[j] = 0
            \/ /\ hll[s].registers[j] >= 1
               /\ hll[s].registers[j] <= 64 - hll[s].precision + 1

\* The merge of two workers of precision 4 holds a register at the upper
\* limit 61 (a key whose remaining 60 bits are zero), a register at the lower
\* limit 1, and registers still at 0.
C27_Witness ==
    /\ hll["R"] # None
    /\ hll["R"].precision = 4
    /\ hllSeen["A"] # {} /\ hllSeen["B"] # {} /\ hllSeen["A"] # hllSeen["B"]
    /\ \E j \in 0 .. 15 : hll["R"].registers[j] = 61
    /\ \E j \in 0 .. 15 : hll["R"].registers[j] = 1
    /\ \E j \in 0 .. 15 : hll["R"].registers[j] = 0

\* C28: count() is total: on every register array reachable by add and merge
\* it returns a non-negative integer and does not raise, also when the raw
\* estimate reaches or passes 2^32 in the large-range correction, and on a
\* freshly created instance it returns 0.
C28_CountTotal ==
    /\ hllRet # "ValueError"
    /\ hllRet = "int" => hllRetInt >= 0
    /\ (hllRet = "int" /\ hll["A"] = HLLNew(hll["A"].precision)) => hllRetInt = 0

\* The BloomFilter after add(item).
BFAfterAdd(f, item) ==
    [f EXCEPT !.bits = BFAddBits(f, f.bits, item, 0), !.num_items = @ + 1]

\* The BloomFilter after the add calls of a sequence of keys.
RECURSIVE BFAfter(_, _)
BFAfter(f, q) ==
    IF Len(q) = 0 THEN f
    ELSE LET g == CHOOSE v \in {BFAfterAdd(f, Head(q))} : TRUE
         IN BFAfter(g, Tail(q))

\* The CountMinSketch after the update calls of a sequence of <<key, count>>.
RECURSIVE CMSAfter(_, _)
CMSAfter(sk, q) ==
    IF Len(q) = 0 THEN sk
    ELSE LET t == CHOOSE v \in {CMSUpdated(sk, Head(q)[1], Head(q)[2])} : TRUE
         IN CMSAfter(t, Tail(q))

\* The sequences of at most two elements of a set.
UpToTwo(S) == {<<>>} \cup [1 .. 1 -> S] \cup [1 .. 2 -> S]

\* C29: the mutators of BloomFilter and CountMinSketch commute: a call that
\* is executed first leaves, after any further calls, the state (bit array
\* and num_items; table and total_count) that is reached when it is executed
\* after them, so the final state of a multiset of add calls, and of a
\* multiset of update calls, is the same in every order.
C29_MutatorsCommute ==
    [][/\ \A x \in Items :
             BFAdd(x) =>
                 \A q \in UpToTwo(Items) :
                     BFAfter(bf', q) = BFAfter(bf, q \o <<x>>)
       /\ \A x \in Items, count \in CMSCounts :
             CMSUpdate("A", x, count) =>
                 \A q \in UpToTwo(Items \X CMSCounts) :
                     CMSAfter(cms'["A"], q) = CMSAfter(cms["A"], q \o <<<<x, count>>>>)
      ]_vars

\* Both keys were added to the filter, with a bit in common and bits of their
\* own, and the sketch was updated with both keys, which share a cell in one
\* row and not in the other.
C29_Witness ==
    /\ bf.num_items = 2
    /\ bfAdded = Items
    /\ \E i \in 0 .. bf.num_hashes - 1, j \in 0 .. bf.num_hashes - 1 :
          BFHash(bf, "a", i) = BFHash(bf, "b", j)
    /\ \E i \in 0 .. bf.num_hashes - 1 : \A j \in 0 .. bf.num_hashes - 1 :
          BFHash(bf, "a", i) # BFHash(bf, "b", j)
    /\ cmsTrue["A"] = [x \in Items |-> 1]
    /\ cms["A"].total_count = 2
    /\ CMSHash(cms["A"], "a", 0) = CMSHash(cms["A"], "b", 0)
    /\ CMSHash(cms["A"], "a", 1) # CMSHash(cms["A"], "b", 1)

\* An increment was lost: some key's query is below its true count and some
\* row does not sum to total_count.
CMSLostIncrement ==
    /\ \E x \in Items : CMSQuery(cms["A"], x) < cmsTrue["A"][x]
    /\ \E r \in 0 .. cms["A"].depth - 1 :
          CMSRowSum(cms["A"].table[r], cms["A"].width - 1) # cms["A"].total_count

\* C30: nothing locks the sketch, so the guarantees rest on the caller: two
\* update calls whose reads and writes of `table[row][col] += count` and
\* `total_count += count` interleave can lose an increment, while two calls
\* that run one after the other never do: no state of such a run has a query
\* below a true count together with a row sum that is not total_count, and
\* when both have returned every row sums to total_count and no query is
\* below the true count.
C30_SerializedUpdatesLoseNothing ==
    updSerial =>
        /\ ~CMSLostIncrement
        /\ (\A t \in Threads : upd[t].pc = "done") =>
              /\ \A r \in 0 .. cms["A"].depth - 1 :
                    CMSRowSum(cms["A"].table[r], cms["A"].width - 1) =
                        cms["A"].total_count
              /\ \A x \in Items : CMSQuery(cms["A"], x) >= cmsTrue["A"][x]

\* Both calls have returned after steps of one fell between steps of the
\* other, and an increment is lost.
C30_Witness ==
    /\ \A t \in Threads : upd[t].pc = "done"
    /\ ~updSerial
    /\ CMSLostIncrement

====
